---- MODULE Spec2Model ----
(***************************************************************************)
(* Model of split-reads: the split index (build, downsize_reads, lookup)   *)
(* of src/src/split_index.rs and the chunk extractor (fast_forward,        *)
(* write_chunk) of src/src/chunkable.rs.                                   *)
(*                                                                         *)
(* A source file is a sequence of query names; record number i of the      *)
(* source is [qname |-> source[i], idx |-> i], so that two records with    *)
(* the same query name are still different records.  Reader positions are  *)
(* byte offsets: record i starts at Offset(source, i).                     *)
(***************************************************************************)
EXTENDS Integers, Sequences, FiniteSets, TLC

\* ---------------------------------------------------------------- bounds
MaxReads == 6
MaxBins == 3
MaxChunks == 3
MaxCount == 6
HeaderLen == 1
MaxIndexReads == 9
MaxSerialRecords == 2
MaxStartQueries == 20
MaxStartChunks == 12
UsizeBits == 6
MaxFront == 2
MaxBack == 2
MaxSeek == 5
MaxBuf == 2

Qnames == {1, 2}

VARIABLES
    source,        \* the source file: the sequence of its records' qnames
    num_bins,      \* build's num_bins argument
    pc,            \* position of the pipeline
    reader_pos,    \* the reader's position (what tell returns)
    record,        \* the record buffer of build / of the extractor
    split_index,   \* the index being built, then the raw index (self of downsize_reads)
    bld,           \* build's locals: next_query_bin, offset, last_query_name, split_record
    writer,        \* build's passthrough writer: [present, records]
    ds,            \* downsize_reads' locals: num_bins, bin, downsized, last_offset, last_index,
                   \* and the target_num_queries and index of the last iteration
    loaded_index,  \* the index handed to fast_forward
    num_chunks,    \* get-chunk's num_chunks
    chunk_index,   \* get-chunk's chunk_index
    ff,            \* fast_forward's locals, then the FastForwardInfo
    out,           \* records written by write_chunk for the current chunk
    chunks,        \* the outputs of the chunks already extracted, in chunk order
    file,          \* the bytes of the index file: what serialize returned, as stored
    bytes,         \* deserialize's buffer, drained from the front as it is parsed
    len,           \* deserialize's len: the 8 bytes of the declared record count
    lookup,        \* the Option<SplitRange> get_record_for_num_queries returned
    chain,         \* the Chain: its fields and the two streams it owns
    trace,         \* history of the calls made on the chain: the last seek, the bytes read since
    write_record,  \* translate_and_write_chunk's secondary record buffer
    other,         \* a second extractor of the same source and index, while it is not running
    request,       \* the arguments of the command: paths, formats
    response       \* what the command's step returned, and the files it made

vars == <<source, num_bins, pc, reader_pos, record, split_index, bld, writer, ds,
          loaded_index, num_chunks, chunk_index, ff, out, chunks, file, bytes, len,
          lookup, chain, trace, write_record, other, request, response>>

\* the state of serialize and deserialize
serial_vars == <<file, bytes, len>>

\* the chain reader and the history of its calls
chain_vars == <<chain, trace>>

\* the command's arguments and what it answered
command_vars == <<request, response>>

\* ------------------------------------------------------ source and reader

SeqsUpTo(S, n) == UNION {[1..k -> S] : k \in 0..n}

\* Byte length of a record: it grows with the query name.
RecLen(q) == q + 1

\* Position of record i of src (i = Len(src) + 1: the end of the file).
RECURSIVE Offset(_, _)
Offset(src, i) == IF i <= 1 THEN HeaderLen ELSE Offset(src, i - 1) + RecLen(src[i - 1])

\* Record::new()
NoRecord == [qname |-> 0, idx |-> 0]

Rec(src, i) == [qname |-> src[i], idx |-> i]

SourceRecords(src) == [i \in 1..Len(src) |-> Rec(src, i)]

\* read_into reporting the end of the file as an error
ReadIntoEndIsError(src, pos) ==
    IF pos = Offset(src, Len(src) + 1)
    THEN [kind |-> "err", rec |-> NoRecord, pos |-> pos]
    ELSE IF \E i \in 1..Len(src) : Offset(src, i) = pos
         THEN LET i == CHOOSE j \in 1..Len(src) : Offset(src, j) = pos
              IN [kind |-> "ok", rec |-> Rec(src, i), pos |-> Offset(src, i + 1)]
         ELSE [kind |-> "err", rec |-> NoRecord, pos |-> pos]

\* reader.read_into at position pos: None at the end of the file or past it, Some(Err)
\* when pos is not the first byte of a record, else the record, the reader moving
\* past it.
ReadInto(src, pos) ==
    IF pos >= Offset(src, Len(src) + 1)
    THEN [kind |-> "eof", rec |-> NoRecord, pos |-> pos]
    ELSE IF \E i \in 1..Len(src) : Offset(src, i) = pos
         THEN LET i == CHOOSE j \in 1..Len(src) : Offset(src, j) = pos
              IN [kind |-> "ok", rec |-> Rec(src, i), pos |-> Offset(src, i + 1)]
         ELSE [kind |-> "err", rec |-> NoRecord, pos |-> pos]

\* ------------------------------------------------------------ split index

SplitRecord(o, q, r) == [offset |-> o, num_queries |-> q, num_reads |-> r]

NoSplitRecord == SplitRecord(0, 0, 0)

\* SplitIndex::num_queries
NumQueries(idx) == IF Len(idx) > 0 THEN idx[Len(idx)].num_queries ELSE 0

\* SplitIndex::num_reads
NumReads(idx) == IF Len(idx) > 0 THEN idx[Len(idx)].num_reads ELSE 0

\* start_next_record counting no query group for the record that opens the bin
StartNextRecordNoQuery(idx, o) == SplitRecord(o, NumQueries(idx), NumReads(idx) + 1)

\* SplitIndex::start_next_record
StartNextRecord(idx, o) == SplitRecord(o, NumQueries(idx) + 1, NumReads(idx) + 1)

Max(a, b) == IF a >= b THEN a ELSE b

\* the binary search for the first record whose num_queries is greater than target
RECURSIVE BisectLoopRight(_, _, _, _)
BisectLoopRight(idx, target, lo, hi) ==
    IF lo < hi
    THEN LET mid == (lo + hi) \div 2
         IN IF idx[mid + 1].num_queries <= target
            THEN BisectLoopRight(idx, target, mid + 1, hi)
            ELSE BisectLoopRight(idx, target, lo, mid)
    ELSE lo

\* bisect_left_by(&split_records, |r| r.num_queries.cmp(&target)): binary search for
\* the 0-based index of the first record whose num_queries is not less than target
RECURSIVE BisectLoop(_, _, _, _)
BisectLoop(idx, target, lo, hi) ==
    IF lo < hi
    THEN LET mid == (lo + hi) \div 2
         IN IF idx[mid + 1].num_queries < target
            THEN BisectLoop(idx, target, mid + 1, hi)
            ELSE BisectLoop(idx, target, lo, mid)
    ELSE lo

BisectLeft(idx, target) == BisectLoop(idx, target, 0, Len(idx))

\* None of Option<SplitRange>
NoSplitRange == [some |-> FALSE, offset |-> 0, num_previous_queries |-> 0,
                 num_end_queries |-> 0, num_previous_reads |-> 0, num_end_reads |-> 0]

\* index_to_bin_range with the end count of reads taken from the previous record
IndexToBinRangeSwapped(idx, index) ==
    IF index < Len(idx)
    THEN [some |-> TRUE,
          offset |-> idx[index + 1].offset,
          num_previous_queries |-> IF index = 0 THEN 0 ELSE idx[index].num_queries,
          num_end_queries |-> idx[index + 1].num_queries,
          num_previous_reads |-> IF index = 0 THEN 0 ELSE idx[index].num_reads,
          num_end_reads |-> IF index = 0 THEN 0 ELSE idx[index].num_reads]
    ELSE [some |-> FALSE, offset |-> 0, num_previous_queries |-> 0,
          num_end_queries |-> 0, num_previous_reads |-> 0, num_end_reads |-> 0]

\* SplitIndex::index_to_bin_range (index is 0-based); None when past the end
IndexToBinRange(idx, index) ==
    IF index < Len(idx)
    THEN [some |-> TRUE,
          offset |-> idx[index + 1].offset,
          num_previous_queries |-> IF index = 0 THEN 0 ELSE idx[index].num_queries,
          num_end_queries |-> idx[index + 1].num_queries,
          num_previous_reads |-> IF index = 0 THEN 0 ELSE idx[index].num_reads,
          num_end_reads |-> idx[index + 1].num_reads]
    ELSE [some |-> FALSE, offset |-> 0, num_previous_queries |-> 0,
          num_end_queries |-> 0, num_previous_reads |-> 0, num_end_reads |-> 0]

\* FastForwardIndex::get_record_for_num_queries
GetRecordForNumQueries(idx, n) == IndexToBinRange(idx, BisectLeft(idx, n))

\* usize, with UsizeBits bits: the values 0..UsizeRange-1
UsizeRange == 2 ^ UsizeBits

\* usize multiplication and addition as a build without overflow checks does them
WrappingMul(a, b) == (a * b) % UsizeRange

WrappingAdd(a, b) == (a + b) % UsizeRange

\* get_chunk_query_start handing out blocks of ceil(T / n) query groups
GetChunkQueryStartCeilBlocks(idx, c, n) ==
    IF c <= n
    THEN LET block == (NumQueries(idx) + n - 1) \div n
         IN [ok |-> TRUE,
             val |-> IF c * block < NumQueries(idx) THEN c * block ELSE NumQueries(idx)]
    ELSE [ok |-> FALSE, val |-> 0]

\* FastForwardIndex::get_chunk_query_start: Ok(start) or Err
GetChunkQueryStart(idx, c, n) ==
    IF c <= n
    THEN [ok |-> TRUE,
          val |-> WrappingAdd(WrappingMul(c, NumQueries(idx) \div n),
                              WrappingMul(c, NumQueries(idx) % n) \div n)]
    ELSE [ok |-> FALSE, val |-> 0]

\* one of get_chunk_query_start's products does not fit usize: a build with overflow
\* checks panics there
ChunkQueryStartOverflows(idx, c, n) ==
    /\ c <= n
    /\ \/ c * (NumQueries(idx) \div n) >= UsizeRange
       \/ c * (NumQueries(idx) % n) >= UsizeRange
       \/ (c * (NumQueries(idx) \div n)) + ((c * (NumQueries(idx) % n)) \div n)
              >= UsizeRange

\* ---------------------------------------------------------- downsize_reads

\* the clone only when two more bins are asked for than the index has
KeepsOriginalOffByOne(self, m) == m > Len(self) + 1

\* downsize_reads, line 267: more bins are asked for than the index has
KeepsOriginal(self, m) == m > Len(self)

\* the target rounded up instead of down
TargetNumQueriesRoundsUp(self, bin, m) == (bin * NumQueries(self) + m - 1) \div m

\* downsize_reads, line 283: the target count of query groups of bin
TargetNumQueries(self, bin, m) == GetChunkQueryStart(self, bin, m).val

\* the record before the one the search found, whatever the distances
NearestIndexLower(self, bin, m) ==
    LET target_num_queries == TargetNumQueries(self, bin, m)
        index == BisectLeft(self, target_num_queries)
    IN IF index > 0 THEN index - 1 ELSE index

\* the nearest record looked up for the bin number itself, not for its target count
NearestIndexOfBin(self, bin, m) ==
    LET target_num_queries == bin
        index == BisectLeft(self, target_num_queries)
    IN IF /\ index > 0
          /\ target_num_queries - self[index].num_queries
                 <= self[index + 1].num_queries - target_num_queries
       THEN index - 1
       ELSE index

\* the result without the closing record
DownsizeTailDropsLast(self, d) == d.downsized

\* the later record kept when the two candidates are equally near
NearestIndexTieUpper(self, bin, m) ==
    LET target_num_queries == TargetNumQueries(self, bin, m)
        index == BisectLeft(self, target_num_queries)
    IN IF /\ index > 0
          /\ target_num_queries - self[index].num_queries
                 < self[index + 1].num_queries - target_num_queries
       THEN index - 1
       ELSE index

\* downsize_reads, lines 283-294: the 0-based index of the original record chosen
\* for bin
NearestIndex(self, bin, m) ==
    LET target_num_queries == TargetNumQueries(self, bin, m)
        index == BisectLeft(self, target_num_queries)
    IN IF /\ index > 0
          /\ target_num_queries - self[index].num_queries
                 <= self[index + 1].num_queries - target_num_queries
       THEN index - 1
       ELSE index

\* the loop body returning early without the record it has just chosen
DownsizeIterEarlyReturnDrops(self, d0) ==
    LET index == NearestIndex(self, d0.bin, d0.num_bins)
        d == [d0 EXCEPT !.target_num_queries = TargetNumQueries(self, d0.bin, d0.num_bins),
                        !.index = index]
    IN IF d.last_index # -1 /\ index <= d.last_index
       THEN [returned |-> FALSE, d |-> [d EXCEPT !.bin = @ + 1]]
       ELSE LET new_record == [self[index + 1] EXCEPT !.offset = d.last_offset]
                added == Append(d.downsized, new_record)
            IN IF index + 1 < Len(self)
               THEN [returned |-> FALSE,
                     d |-> [d EXCEPT !.bin = @ + 1,
                                     !.downsized = added,
                                     !.last_offset = self[index + 2].offset,
                                     !.last_index = index]]
               ELSE [returned |-> TRUE, d |-> d]

\* the loop body carrying the chosen bin's own offset instead of its successor's
DownsizeIterOwnOffset(self, d0) ==
    LET index == NearestIndex(self, d0.bin, d0.num_bins)
        d == [d0 EXCEPT !.target_num_queries = TargetNumQueries(self, d0.bin, d0.num_bins),
                        !.index = index]
    IN IF d.last_index # -1 /\ index <= d.last_index
       THEN [returned |-> FALSE, d |-> [d EXCEPT !.bin = @ + 1]]
       ELSE LET new_record == [self[index + 1] EXCEPT !.offset = d.last_offset]
                added == Append(d.downsized, new_record)
            IN IF index + 1 < Len(self)
               THEN [returned |-> FALSE,
                     d |-> [d EXCEPT !.bin = @ + 1,
                                     !.downsized = added,
                                     !.last_offset = self[index + 1].offset,
                                     !.last_index = index]]
               ELSE [returned |-> TRUE, d |-> [d EXCEPT !.downsized = added]]

\* the loop body adding the record it found even when it is not a later one
DownsizeIterNeverSkips(self, d0) ==
    LET index == NearestIndex(self, d0.bin, d0.num_bins)
        d == [d0 EXCEPT !.target_num_queries = TargetNumQueries(self, d0.bin, d0.num_bins),
                        !.index = index]
        new_record == [self[index + 1] EXCEPT !.offset = d.last_offset]
        added == Append(d.downsized, new_record)
    IN IF index + 1 < Len(self)
       THEN [returned |-> FALSE,
             d |-> [d EXCEPT !.bin = @ + 1,
                             !.downsized = added,
                             !.last_offset = self[index + 2].offset,
                             !.last_index = index]]
       ELSE [returned |-> TRUE, d |-> [d EXCEPT !.downsized = added]]

\* downsize_reads, lines 282-314: one iteration of the loop over bin, from the locals
\* d; "returned" tells the early return of line 310
DownsizeIter(self, d0) ==
    LET index == NearestIndex(self, d0.bin, d0.num_bins)
        d == [d0 EXCEPT !.target_num_queries = TargetNumQueries(self, d0.bin, d0.num_bins),
                        !.index = index]
    IN IF d.last_index # -1 /\ index <= d.last_index
       THEN [returned |-> FALSE, d |-> [d EXCEPT !.bin = @ + 1]]
       ELSE LET new_record == [self[index + 1] EXCEPT !.offset = d.last_offset]
                added == Append(d.downsized, new_record)
            IN IF index + 1 < Len(self)
               THEN [returned |-> FALSE,
                     d |-> [d EXCEPT !.bin = @ + 1,
                                     !.downsized = added,
                                     !.last_offset = self[index + 2].offset,
                                     !.last_index = index]]
               ELSE [returned |-> TRUE, d |-> [d EXCEPT !.downsized = added]]

\* downsize_reads, lines 315-320: the last original record closes the result
DownsizeTail(self, d) ==
    Append(d.downsized, [self[Len(self)] EXCEPT !.offset = d.last_offset])

\* ------------------------------------------------------------------ build

NoBuild == [next_query_bin |-> 0, offset |-> 0, last_query_name |-> 0,
            split_record |-> NoSplitRecord]

NoWriter == [present |-> FALSE, records |-> <<>>]

NoDownsize == [num_bins |-> 0, bin |-> 0, downsized |-> <<>>, last_offset |-> 0,
               last_index |-> -1, target_num_queries |-> 0, index |-> 0]

NoFastForward == [start_num_queries |-> 0, stop_num_queries |-> 0, num_queries |-> 0,
                  num_reads |-> 0, hard_stop_num_reads |-> 0, last_query_name |-> 0,
                  walk |-> FALSE]

\* no command line, no answer
NoRequest == [input |-> "", output |-> "", output_format |-> "", operation |-> "",
              header |-> FALSE, compression |-> ""]

NoResponse == [ok |-> FALSE, value |-> "", created |-> {}]

\* an extractor that was not started
NoExtractor == [pc |-> "none", chunk_index |-> 0, reader_pos |-> HeaderLen,
                record |-> NoRecord, ff |-> NoFastForward, out |-> <<>>]

\* FastqRecord::new()
FastqRecordNew == [name |-> 0, sequence |-> <<>>, separator |-> <<>>, qualities |-> <<>>]

\* the FastqRecord the reader yields for the record rec of the source: its
\* name line, its sequence, the separator line "+", its qualities
FastqFields(rec) ==
    [name |-> rec.qname, sequence |-> <<"seq", rec.idx>>, separator |-> <<"+">>,
     qualities |-> <<"qual", rec.idx>>]

\* FastqRecord's set_fields(qname, seq, qual)
SetFields(w, qname, seq, qual) ==
    [w EXCEPT !.name = qname, !.sequence = seq, !.qualities = qual]

\* write_record.translate(&self.record), both of them FastqRecords
Translate(w, rec) ==
    LET from == FastqFields(rec)
    IN SetFields(w, from.name, from.sequence, from.qualities)

\* FastqWriter::write: the four lines of the record
FastqWrite(fastq_record) ==
    <<fastq_record.name, fastq_record.sequence, fastq_record.separator,
      fastq_record.qualities>>

\* the passthrough writer given only the first record of each run of one qname
PassThroughGroupStarts(w, rec) ==
    IF w.present /\ (Len(w.records) = 0 \/ w.records[Len(w.records)].qname # rec.qname)
    THEN [w EXCEPT !.records = Append(@, rec)]
    ELSE w

\* writer.write(&record) of the passthrough writer, when there is one
PassThrough(w, rec) ==
    IF w.present THEN [w EXCEPT !.records = Append(@, rec)] ELSE w

\* build, lines 210-227: the first read
BuildFirst ==
    /\ pc = "build"
    /\ LET offset0 == reader_pos
           res == ReadInto(source, reader_pos)
       IN IF res.kind = "ok"
          THEN /\ record' = res.rec
               /\ reader_pos' = res.pos
               /\ writer' = PassThrough(writer, res.rec)
               /\ bld' = [next_query_bin |-> 1,
                          offset |-> res.pos,
                          last_query_name |-> res.rec.qname,
                          split_record |-> StartNextRecord(split_index, offset0)]
               /\ pc' = "build_loop"
               /\ UNCHANGED split_index
          ELSE \* None: "Empty index: no reads", Ok(empty index); Some(Err): result?
               /\ pc' = IF res.kind = "eof" THEN "built" ELSE "error"
               /\ UNCHANGED <<record, reader_pos, writer, bld, split_index>>
    /\ UNCHANGED <<source, num_bins, ds, loaded_index, num_chunks, chunk_index, ff, out,
                   chunks>>
    /\ UNCHANGED <<serial_vars, lookup, chain_vars, write_record, other, command_vars>>

\* the loop body not counting the reads that continue a query group
BuildBranchDropsRead(idx, b, rec, n) ==
    IF rec.qname = b.last_query_name
    THEN [split_index |-> idx, bld |-> b]
    ELSE IF b.split_record.num_queries < b.next_query_bin
    THEN [split_index |-> idx,
          bld |-> [b EXCEPT !.last_query_name = rec.qname,
                            !.split_record.num_reads = @ + 1,
                            !.split_record.num_queries = @ + 1]]
    ELSE LET added == Append(idx, b.split_record)
         IN [split_index |-> added,
             bld |-> [b EXCEPT !.last_query_name = rec.qname,
                               !.next_query_bin = @ + Max(1, NumQueries(added) \div n),
                               !.split_record = StartNextRecord(added, b.offset)]]

\* the loop body closing the bin as soon as the threshold is met, whatever the
\* qname of the record
BuildBranchCutsAtThreshold(idx, b, rec, n) ==
    IF b.split_record.num_queries >= b.next_query_bin
    THEN LET added == Append(idx, b.split_record)
         IN [split_index |-> added,
             bld |-> [b EXCEPT !.last_query_name = rec.qname,
                               !.next_query_bin = @ + Max(1, NumQueries(added) \div n),
                               !.split_record = StartNextRecord(added, b.offset)]]
    ELSE IF rec.qname = b.last_query_name
    THEN [split_index |-> idx,
          bld |-> [b EXCEPT !.split_record.num_reads = @ + 1]]
    ELSE [split_index |-> idx,
          bld |-> [b EXCEPT !.last_query_name = rec.qname,
                            !.split_record.num_reads = @ + 1,
                            !.split_record.num_queries = @ + 1]]

\* the loop body keeping a bin open while its count equals the threshold
BuildBranchLateClose(idx, b, rec, n) ==
    IF rec.qname = b.last_query_name
    THEN [split_index |-> idx,
          bld |-> [b EXCEPT !.split_record.num_reads = @ + 1]]
    ELSE IF b.split_record.num_queries <= b.next_query_bin
    THEN [split_index |-> idx,
          bld |-> [b EXCEPT !.last_query_name = rec.qname,
                            !.split_record.num_reads = @ + 1,
                            !.split_record.num_queries = @ + 1]]
    ELSE LET added == Append(idx, b.split_record)
         IN [split_index |-> added,
             bld |-> [b EXCEPT !.last_query_name = rec.qname,
                               !.next_query_bin = @ + Max(1, NumQueries(added) \div n),
                               !.split_record = StartNextRecord(added, b.offset)]]

\* the loop body raising the threshold by one at every bin, whatever the count
BuildBranchBumpsByOne(idx, b, rec, n) ==
    IF rec.qname = b.last_query_name
    THEN [split_index |-> idx,
          bld |-> [b EXCEPT !.split_record.num_reads = @ + 1]]
    ELSE IF b.split_record.num_queries < b.next_query_bin
    THEN [split_index |-> idx,
          bld |-> [b EXCEPT !.last_query_name = rec.qname,
                            !.split_record.num_reads = @ + 1,
                            !.split_record.num_queries = @ + 1]]
    ELSE LET added == Append(idx, b.split_record)
         IN [split_index |-> added,
             bld |-> [b EXCEPT !.last_query_name = rec.qname,
                               !.next_query_bin = @ + 1,
                               !.split_record = StartNextRecord(added, b.offset)]]

\* The three branches of build's loop body, lines 241-255, on the record just read:
\* the new split_index, next_query_bin, last_query_name and split_record.
BuildBranch(idx, b, rec, n) ==
    IF rec.qname = b.last_query_name
    THEN [split_index |-> idx,
          bld |-> [b EXCEPT !.split_record.num_reads = @ + 1]]
    ELSE IF b.split_record.num_queries < b.next_query_bin
    THEN [split_index |-> idx,
          bld |-> [b EXCEPT !.last_query_name = rec.qname,
                            !.split_record.num_reads = @ + 1,
                            !.split_record.num_queries = @ + 1]]
    ELSE LET added == Append(idx, b.split_record)
         IN [split_index |-> added,
             bld |-> [b EXCEPT !.last_query_name = rec.qname,
                               !.next_query_bin = @ + Max(1, NumQueries(added) \div n),
                               !.split_record = StartNextRecord(added, b.offset)]]

\* build, lines 228-257: one iteration of the loop
BuildStep ==
    /\ pc = "build_loop"
    /\ LET res == ReadInto(source, reader_pos)
       IN /\ res.kind # "eof"
          /\ IF res.kind = "ok"
             THEN LET br == BuildBranch(split_index, bld, res.rec, num_bins)
                  IN /\ record' = res.rec
                     /\ reader_pos' = res.pos
                     /\ writer' = PassThrough(writer, res.rec)
                     /\ split_index' = br.split_index
                     /\ bld' = [br.bld EXCEPT !.offset = res.pos]
                     /\ pc' = pc
             ELSE \* result?
                  /\ pc' = "error"
                  /\ UNCHANGED <<record, reader_pos, writer, split_index, bld>>
    /\ UNCHANGED <<source, num_bins, ds, loaded_index, num_chunks, chunk_index, ff,
                   out, chunks>>
    /\ UNCHANGED <<serial_vars, lookup, chain_vars, write_record, other, command_vars>>

\* build, lines 258-262: the reader is at its end; the last bin is pushed and the
\* index returned (build's locals go out of scope)
BuildFinish ==
    /\ pc = "build_loop"
    /\ ReadInto(source, reader_pos).kind = "eof"
    /\ split_index' = Append(split_index, bld.split_record)
    /\ bld' = NoBuild
    /\ record' = NoRecord
    /\ pc' = "built"
    /\ UNCHANGED <<source, num_bins, reader_pos, writer, ds, loaded_index, num_chunks,
                   chunk_index, ff, out, chunks>>
    /\ UNCHANGED <<serial_vars, lookup, chain_vars, write_record, other, command_vars>>

\* ------------------------------------------------- downsize_reads, stepwise

\* index_reads hands the raw index on as it is (no call of downsize_reads); build
\* has consumed the passthrough writer
KeepRaw ==
    /\ pc = "built"
    /\ loaded_index' = split_index
    /\ writer' = NoWriter
    /\ pc' = "indexed"
    /\ UNCHANGED <<source, num_bins, reader_pos, record, split_index, bld, ds,
                   num_chunks, chunk_index, ff, out, chunks>>
    /\ UNCHANGED <<serial_vars, lookup, chain_vars, write_record, other, command_vars>>

\* downsize_reads, lines 267-281: the clone when more bins are asked for than there
\* are, else the locals before the loop
DownsizeBegin ==
    /\ pc = "built"
    /\ \E m \in 1..MaxBins :
          IF KeepsOriginal(split_index, m)
          THEN /\ loaded_index' = split_index
               /\ ds' = [NoDownsize EXCEPT !.num_bins = m]
               /\ pc' = "indexed"
          ELSE IF Len(split_index) = 0
          THEN \* "No bins in original index. Should be unreachable."
               /\ pc' = "error"
               /\ UNCHANGED <<loaded_index, ds>>
          ELSE /\ ds' = [num_bins |-> m, bin |-> 1, downsized |-> <<>>,
                         last_offset |-> split_index[1].offset, last_index |-> -1,
                         target_num_queries |-> 0, index |-> 0]
               /\ pc' = "downsize_loop"
               /\ UNCHANGED loaded_index
    /\ writer' = NoWriter
    /\ UNCHANGED <<source, num_bins, reader_pos, record, split_index, bld,
                   num_chunks, chunk_index, ff, out, chunks>>
    /\ UNCHANGED <<serial_vars, lookup, chain_vars, write_record, other, command_vars>>

\* downsize_reads, lines 282-314: one iteration, possibly the early return
DownsizeStep ==
    /\ pc = "downsize_loop"
    /\ ds.bin < ds.num_bins
    /\ LET r == DownsizeIter(split_index, ds)
       IN IF r.returned
          THEN /\ loaded_index' = r.d.downsized
               /\ ds' = [NoDownsize EXCEPT !.num_bins = ds.num_bins, !.bin = ds.bin,
                                           !.target_num_queries = r.d.target_num_queries,
                                           !.index = r.d.index]
               /\ pc' = "indexed"
          ELSE /\ ds' = r.d
               /\ UNCHANGED <<loaded_index, pc>>
    /\ UNCHANGED <<source, num_bins, reader_pos, record, split_index, bld, writer,
                   num_chunks, chunk_index, ff, out, chunks>>
    /\ UNCHANGED <<serial_vars, lookup, chain_vars, write_record, other, command_vars>>

\* downsize_reads, lines 315-320: after the loop
DownsizeFinish ==
    /\ pc = "downsize_loop"
    /\ ds.bin >= ds.num_bins
    /\ loaded_index' = DownsizeTail(split_index, ds)
    /\ ds' = [NoDownsize EXCEPT !.num_bins = ds.num_bins, !.bin = ds.bin]
    /\ pc' = "indexed"
    /\ UNCHANGED <<source, num_bins, reader_pos, record, split_index, bld, writer,
                   num_chunks, chunk_index, ff, out, chunks>>
    /\ UNCHANGED <<serial_vars, lookup, chain_vars, write_record, other, command_vars>>

\* ------------------------------------------------------------ fast_forward

\* the walk going on for one query group more
WalkContinuesOneMore(num_queries, start_num_queries) == num_queries <= start_num_queries + 1

\* the walk stopping one query group early
WalkContinuesStrict(num_queries, start_num_queries) == num_queries < start_num_queries

\* every record taken for the first of a new query group
SameQueryNever(qname, last_query_name) == FALSE

\* fast_forward, line 212: the walk goes on until a group after start_num_queries
\* has been started
WalkContinues(num_queries, start_num_queries) == num_queries <= start_num_queries

\* write_chunk, lines 88 and 101: the record read belongs to the group being written
SameQuery(qname, last_query_name) == qname = last_query_name

\* get-chunk is run for chunk 0 of num_chunks, with a reader of its own
StartChunks ==
    /\ pc = "indexed"
    /\ \E n \in 1..MaxChunks : num_chunks' = n
    /\ chunk_index' = 0
    /\ reader_pos' = HeaderLen
    /\ pc' = "fast_forward"
    /\ UNCHANGED <<source, num_bins, record, split_index, bld, writer, ds,
                   loaded_index, ff, out, chunks>>
    /\ UNCHANGED <<serial_vars, lookup, chain_vars, write_record, other, command_vars>>

\* read_no_missing taking a missing record for a read that went well
ReadNoMissingEndIsOk(src, pos, num_reads) ==
    LET res == ReadInto(src, pos)
    IN [ok |-> res.kind \in {"ok", "eof"}, rec |-> res.rec, pos |-> res.pos,
        num_reads |-> num_reads + 1, err |-> ""]

\* ChunkableRecordReader::read_no_missing: the counter is raised, then None is a
\* "file truncated." error, and an error of the reader is passed on
ReadNoMissing(src, pos, num_reads) ==
    LET res == ReadInto(src, pos)
    IN [ok |-> res.kind = "ok", rec |-> res.rec, pos |-> res.pos,
        num_reads |-> num_reads + 1,
        err |-> CASE res.kind = "eof" -> "file truncated."
                  [] res.kind = "err" -> "reader error"
                  [] OTHER -> ""]

\* what the operation returns when read_no_missing returned res: its Err, passed
\* on by the ? operator
ReadError(res) ==
    IF res.ok THEN response ELSE [ok |-> FALSE, value |-> res.err, created |-> {}]

\* the chunk taken for empty only when its bounds are out of order
EmptyChunkStrict(start_num_queries, stop_num_queries) == start_num_queries > stop_num_queries

\* fast_forward, line 188: the chunk holds no query group
EmptyChunk(start_num_queries, stop_num_queries) == start_num_queries >= stop_num_queries

\* one call of get_chunk_query_start as fast_forward sees it: its Err, or its value;
\* where a product does not fit usize a build with overflow checks panics and one
\* without goes on with the wrapped value
ChunkQueryStartOutcomes(idx, c, n) ==
    IF ~GetChunkQueryStart(idx, c, n).ok
    THEN {[kind |-> "err", val |-> 0]}
    ELSE IF ChunkQueryStartOverflows(idx, c, n)
    THEN {[kind |-> "panic", val |-> 0],
          [kind |-> "ok", val |-> GetChunkQueryStart(idx, c, n).val]}
    ELSE {[kind |-> "ok", val |-> GetChunkQueryStart(idx, c, n).val]}

\* chunk_index + 1 in usize, line 187: past the largest usize a build with
\* overflow checks panics and one without wraps to 0
ChunkIndexPlusOne(c) ==
    IF c + 1 < UsizeRange
    THEN {[kind |-> "ok", val |-> c + 1]}
    ELSE {[kind |-> "panic", val |-> 0], [kind |-> "ok", val |-> 0]}

\* fast_forward, lines 183-187: start_num_queries, then stop_num_queries, each
\* call's Err returned with the ? operator
ChunkBounds(idx, c, n) ==
    UNION { IF start.kind # "ok"
            THEN {[kind |-> start.kind, start |-> 0, stop |-> 0]}
            ELSE UNION { IF next.kind # "ok"
                         THEN {[kind |-> next.kind, start |-> 0, stop |-> 0]}
                         ELSE { [kind |-> stop.kind, start |-> start.val, stop |-> stop.val]
                                : stop \in ChunkQueryStartOutcomes(idx, next.val, n) }
                         : next \in ChunkIndexPlusOne(c) }
            : start \in ChunkQueryStartOutcomes(idx, c, n) }

\* fast_forward, lines 183-204: the chunk's bounds, the empty chunk, the bin and
\* the seek to its offset
FastForwardSeek ==
    /\ pc = "fast_forward"
    /\ \E bounds \in ChunkBounds(loaded_index, chunk_index, num_chunks) :
          LET split_range == GetRecordForNumQueries(loaded_index, bounds.start)
          IN IF bounds.kind = "panic"
             THEN /\ pc' = "panic"
                  /\ UNCHANGED <<reader_pos, record, ff>>
             ELSE IF bounds.kind = "err"
             THEN /\ pc' = "error"
                  /\ UNCHANGED <<reader_pos, record, ff>>
             ELSE IF EmptyChunk(bounds.start, bounds.stop)
             THEN \* Ok(None): an empty chunk
                  /\ pc' = "chunk_done"
                  /\ UNCHANGED <<reader_pos, record, ff>>
             ELSE IF ~split_range.some
             THEN /\ pc' = "error"
                  /\ UNCHANGED <<reader_pos, record, ff>>
             ELSE /\ reader_pos' = split_range.offset
                  /\ record' = NoRecord
                  /\ ff' = [NoFastForward EXCEPT
                              !.start_num_queries = bounds.start,
                              !.stop_num_queries = bounds.stop,
                              !.num_reads = split_range.num_previous_reads,
                              !.num_queries = split_range.num_previous_queries,
                              !.walk = bounds.start > split_range.num_previous_queries]
                  /\ pc' = "ff_first"
    /\ UNCHANGED <<source, num_bins, split_index, bld, writer, ds, loaded_index,
                   num_chunks, chunk_index, out, chunks>>
    /\ UNCHANGED <<serial_vars, lookup, chain_vars, write_record, other, command_vars>>

\* fast_forward, lines 205-211 and 221-225: the first read after the seek
FastForwardFirst ==
    /\ pc = "ff_first"
    /\ LET res == ReadNoMissing(source, reader_pos, ff.num_reads)
       IN IF ~res.ok
          THEN /\ pc' = "error"
               /\ ff' = [ff EXCEPT !.num_reads = res.num_reads]
               /\ UNCHANGED <<reader_pos, record>>
          ELSE /\ reader_pos' = res.pos
               /\ record' = res.rec
               /\ IF ff.walk
                  THEN /\ ff' = [ff EXCEPT !.num_reads = res.num_reads,
                                           !.last_query_name = res.rec.qname,
                                           !.num_queries = @ + 1]
                       /\ pc' = "ff_walk"
                  ELSE /\ ff' = [ff EXCEPT !.num_reads = res.num_reads,
                                           !.start_num_queries = @ + 1]
                       /\ pc' = "ff_hard_stop"
    /\ response' = ReadError(ReadNoMissing(source, reader_pos, ff.num_reads))
    /\ UNCHANGED <<source, num_bins, split_index, bld, writer, ds, loaded_index,
                   num_chunks, chunk_index, out, chunks>>
    /\ UNCHANGED <<serial_vars, lookup, chain_vars, write_record, other, request>>

\* fast_forward, lines 212-219: one iteration of the walk to the chunk's first group
FastForwardWalk ==
    /\ pc = "ff_walk"
    /\ WalkContinues(ff.num_queries, ff.start_num_queries)
    /\ LET res == ReadNoMissing(source, reader_pos, ff.num_reads)
       IN IF ~res.ok
          THEN /\ pc' = "error"
               /\ ff' = [ff EXCEPT !.num_reads = res.num_reads]
               /\ UNCHANGED <<reader_pos, record>>
          ELSE /\ reader_pos' = res.pos
               /\ record' = res.rec
               /\ ff' = IF res.rec.qname # ff.last_query_name
                        THEN [ff EXCEPT !.num_reads = res.num_reads,
                                        !.num_queries = @ + 1,
                                        !.last_query_name = res.rec.qname]
                        ELSE [ff EXCEPT !.num_reads = res.num_reads]
               /\ pc' = pc
    /\ response' = ReadError(ReadNoMissing(source, reader_pos, ff.num_reads))
    /\ UNCHANGED <<source, num_bins, split_index, bld, writer, ds, loaded_index,
                   num_chunks, chunk_index, out, chunks>>
    /\ UNCHANGED <<serial_vars, lookup, chain_vars, write_record, other, request>>

\* fast_forward, line 220: the walk is over
FastForwardWalkDone ==
    /\ pc = "ff_walk"
    /\ ~WalkContinues(ff.num_queries, ff.start_num_queries)
    /\ ff' = [ff EXCEPT !.start_num_queries = ff.num_queries]
    /\ pc' = "ff_hard_stop"
    /\ UNCHANGED <<source, num_bins, reader_pos, record, split_index, bld, writer, ds,
                   loaded_index, num_chunks, chunk_index, out, chunks>>
    /\ UNCHANGED <<serial_vars, lookup, chain_vars, write_record, other, command_vars>>

\* fast_forward, lines 228-240: the hard stop and the FastForwardInfo
FastForwardInfo ==
    /\ pc = "ff_hard_stop"
    /\ LET stop_range == GetRecordForNumQueries(loaded_index, ff.stop_num_queries)
       IN IF ~stop_range.some
          THEN /\ pc' = "error"
               /\ UNCHANGED ff
          ELSE /\ ff' = [ff EXCEPT !.num_queries = ff.start_num_queries,
                                   !.hard_stop_num_reads = stop_range.num_end_reads]
               /\ pc' = "write_chunk"
    /\ UNCHANGED <<source, num_bins, reader_pos, record, split_index, bld, writer, ds,
                   loaded_index, num_chunks, chunk_index, out, chunks>>
    /\ UNCHANGED <<serial_vars, lookup, chain_vars, write_record, other, command_vars>>

\* ------------------------------------------------------------- write_chunk

\* the last loop reading once more when the hard stop is reached
BelowHardStopInclusive(num_reads, hard_stop_num_reads) == num_reads <= hard_stop_num_reads

\* write_chunk, line 98: the last loop goes on while reads are left before the hard stop
BelowHardStop(num_reads, hard_stop_num_reads) == num_reads < hard_stop_num_reads

\* write_chunk, line 82
WriteChunkBegin ==
    /\ pc = "write_chunk"
    /\ ff' = [ff EXCEPT !.last_query_name = record.qname]
    /\ pc' = "wc_outer"
    /\ UNCHANGED <<source, num_bins, reader_pos, record, split_index, bld, writer, ds,
                   loaded_index, num_chunks, chunk_index, out, chunks>>
    /\ UNCHANGED <<serial_vars, lookup, chain_vars, write_record, other, command_vars>>

\* writer.write(&self.record), then read_no_missing into self.record
WriteThenRead(next_pc) ==
    LET res == ReadNoMissing(source, reader_pos, ff.num_reads)
    IN /\ response' = ReadError(res)
       /\ out' = Append(out, record)
       /\ ff' = [ff EXCEPT !.num_reads = res.num_reads]
       /\ IF res.ok
          THEN /\ reader_pos' = res.pos
               /\ record' = res.rec
               /\ pc' = next_pc
          ELSE /\ pc' = "error"
               /\ UNCHANGED <<reader_pos, record>>

\* write_chunk, lines 83-87: the first record of a group that is not the chunk's last
WriteChunkGroupFirst ==
    /\ pc = "wc_outer"
    /\ ff.num_queries < ff.stop_num_queries
    /\ WriteThenRead("wc_inner")
    /\ UNCHANGED <<source, num_bins, split_index, bld, writer, ds, loaded_index,
                   num_chunks, chunk_index, chunks>>
    /\ UNCHANGED <<serial_vars, lookup, chain_vars, write_record, other, request>>

\* write_chunk, lines 88-92: the rest of that group
WriteChunkGroupRest ==
    /\ pc = "wc_inner"
    /\ SameQuery(record.qname, ff.last_query_name)
    /\ WriteThenRead("wc_inner")
    /\ UNCHANGED <<source, num_bins, split_index, bld, writer, ds, loaded_index,
                   num_chunks, chunk_index, chunks>>
    /\ UNCHANGED <<serial_vars, lookup, chain_vars, write_record, other, request>>

\* write_chunk, lines 93-94: the record in hand starts the next group
WriteChunkNextGroup ==
    /\ pc = "wc_inner"
    /\ ~SameQuery(record.qname, ff.last_query_name)
    /\ ff' = [ff EXCEPT !.num_queries = @ + 1, !.last_query_name = record.qname]
    /\ pc' = "wc_outer"
    /\ UNCHANGED <<source, num_bins, reader_pos, record, split_index, bld, writer, ds,
                   loaded_index, num_chunks, chunk_index, out, chunks>>
    /\ UNCHANGED <<serial_vars, lookup, chain_vars, write_record, other, command_vars>>

\* write_chunk, line 97: the first record of the chunk's last group
WriteChunkLastFirst ==
    /\ pc = "wc_outer"
    /\ ~(ff.num_queries < ff.stop_num_queries)
    /\ out' = Append(out, record)
    /\ pc' = "wc_last"
    /\ UNCHANGED <<source, num_bins, reader_pos, record, split_index, bld, writer, ds,
                   loaded_index, num_chunks, chunk_index, ff, chunks>>
    /\ UNCHANGED <<serial_vars, lookup, chain_vars, write_record, other, command_vars>>

\* write_chunk, lines 98-105: the rest of the last group, up to the hard stop
WriteChunkLastRest ==
    /\ pc = "wc_last"
    /\ BelowHardStop(ff.num_reads, ff.hard_stop_num_reads)
    /\ LET res == ReadNoMissing(source, reader_pos, ff.num_reads)
       IN /\ ff' = [ff EXCEPT !.num_reads = res.num_reads]
          /\ IF ~res.ok
             THEN /\ pc' = "error"
                  /\ UNCHANGED <<reader_pos, record, out>>
             ELSE /\ reader_pos' = res.pos
                  /\ record' = res.rec
                  /\ IF ~SameQuery(res.rec.qname, ff.last_query_name)
                     THEN /\ pc' = "chunk_done"
                          /\ UNCHANGED out
                     ELSE /\ out' = Append(out, res.rec)
                          /\ pc' = pc
    /\ response' = ReadError(ReadNoMissing(source, reader_pos, ff.num_reads))
    /\ UNCHANGED <<source, num_bins, split_index, bld, writer, ds, loaded_index,
                   num_chunks, chunk_index, chunks>>
    /\ UNCHANGED <<serial_vars, lookup, chain_vars, write_record, other, request>>

\* write_chunk, line 106: the hard stop is reached
WriteChunkReturn ==
    /\ pc = "wc_last"
    /\ ~BelowHardStop(ff.num_reads, ff.hard_stop_num_reads)
    /\ pc' = "chunk_done"
    /\ UNCHANGED <<source, num_bins, reader_pos, record, split_index, bld, writer, ds,
                   loaded_index, num_chunks, chunk_index, ff, out, chunks>>
    /\ UNCHANGED <<serial_vars, lookup, chain_vars, write_record, other, command_vars>>

\* The chunk's output is complete; get-chunk is run for the next chunk, with a new
\* reader and a new sink
ChunkDone ==
    /\ pc = "chunk_done"
    /\ chunks' = Append(chunks, out)
    /\ out' = <<>>
    /\ ff' = NoFastForward
    /\ record' = NoRecord
    /\ reader_pos' = HeaderLen
    /\ IF chunk_index + 1 < num_chunks
       THEN /\ chunk_index' = chunk_index + 1
            /\ pc' = "fast_forward"
       ELSE /\ pc' = "done"
            /\ UNCHANGED chunk_index
    /\ UNCHANGED <<source, num_bins, split_index, bld, writer, ds, loaded_index,
                   num_chunks>>
    /\ UNCHANGED <<serial_vars, lookup, chain_vars, write_record, other, command_vars>>

\* ------------------------------------------------- translate_and_write_chunk

\* translate_and_write_chunk, lines 118-119
TranslateChunkBegin ==
    /\ pc = "write_chunk"
    /\ ff' = [ff EXCEPT !.last_query_name = record.qname]
    /\ write_record' = FastqRecordNew
    /\ pc' = "tc_outer"
    /\ UNCHANGED <<source, num_bins, reader_pos, record, split_index, bld, writer, ds,
                   loaded_index, num_chunks, chunk_index, out, chunks>>
    /\ UNCHANGED <<serial_vars, lookup, chain_vars, other, command_vars>>

\* write_record.translate(&self.record), writer.write(&write_record), then
\* read_no_missing into self.record
TranslateWriteThenRead(next_pc) ==
    LET res == ReadNoMissing(source, reader_pos, ff.num_reads)
        translated == Translate(write_record, record)
    IN /\ response' = ReadError(res)
       /\ write_record' = translated
       /\ out' = Append(out, FastqWrite(translated))
       /\ ff' = [ff EXCEPT !.num_reads = res.num_reads]
       /\ IF res.ok
          THEN /\ reader_pos' = res.pos
               /\ record' = res.rec
               /\ pc' = next_pc
          ELSE /\ pc' = "error"
               /\ UNCHANGED <<reader_pos, record>>

\* translate_and_write_chunk, lines 120-125: the first record of a group that is
\* not the chunk's last
TranslateGroupFirst ==
    /\ pc = "tc_outer"
    /\ ff.num_queries < ff.stop_num_queries
    /\ TranslateWriteThenRead("tc_inner")
    /\ UNCHANGED <<source, num_bins, split_index, bld, writer, ds, loaded_index,
                   num_chunks, chunk_index, chunks>>
    /\ UNCHANGED <<serial_vars, lookup, chain_vars, other, request>>

\* translate_and_write_chunk, lines 126-131: the rest of that group
TranslateGroupRest ==
    /\ pc = "tc_inner"
    /\ SameQuery(record.qname, ff.last_query_name)
    /\ TranslateWriteThenRead("tc_inner")
    /\ UNCHANGED <<source, num_bins, split_index, bld, writer, ds, loaded_index,
                   num_chunks, chunk_index, chunks>>
    /\ UNCHANGED <<serial_vars, lookup, chain_vars, other, request>>

\* translate_and_write_chunk, lines 132-133: the record in hand starts the next group
TranslateNextGroup ==
    /\ pc = "tc_inner"
    /\ ~SameQuery(record.qname, ff.last_query_name)
    /\ ff' = [ff EXCEPT !.num_queries = @ + 1, !.last_query_name = record.qname]
    /\ pc' = "tc_outer"
    /\ UNCHANGED <<source, num_bins, reader_pos, record, split_index, bld, writer, ds,
                   loaded_index, num_chunks, chunk_index, out, chunks>>
    /\ UNCHANGED <<serial_vars, lookup, chain_vars, write_record, other, command_vars>>

\* translate_and_write_chunk, lines 136-137: the first record of the chunk's last group
TranslateLastFirst ==
    /\ pc = "tc_outer"
    /\ ~(ff.num_queries < ff.stop_num_queries)
    /\ LET translated == Translate(write_record, record)
       IN /\ write_record' = translated
          /\ out' = Append(out, FastqWrite(translated))
    /\ pc' = "tc_last"
    /\ UNCHANGED <<source, num_bins, reader_pos, record, split_index, bld, writer, ds,
                   loaded_index, num_chunks, chunk_index, ff, chunks>>
    /\ UNCHANGED <<serial_vars, lookup, chain_vars, other, command_vars>>

\* translate_and_write_chunk, lines 138-146: the rest of the last group, up to the
\* hard stop
TranslateLastRest ==
    /\ pc = "tc_last"
    /\ ff.num_reads < ff.hard_stop_num_reads
    /\ LET res == ReadNoMissing(source, reader_pos, ff.num_reads)
       IN /\ ff' = [ff EXCEPT !.num_reads = res.num_reads]
          /\ IF ~res.ok
             THEN /\ pc' = "error"
                  /\ UNCHANGED <<reader_pos, record, out, write_record>>
             ELSE /\ reader_pos' = res.pos
                  /\ record' = res.rec
                  /\ IF ~SameQuery(res.rec.qname, ff.last_query_name)
                     THEN /\ pc' = "chunk_translated"
                          /\ UNCHANGED <<out, write_record>>
                     ELSE LET translated == Translate(write_record, res.rec)
                          IN /\ write_record' = translated
                             /\ out' = Append(out, FastqWrite(translated))
                             /\ pc' = pc
    /\ response' = ReadError(ReadNoMissing(source, reader_pos, ff.num_reads))
    /\ UNCHANGED <<source, num_bins, split_index, bld, writer, ds, loaded_index,
                   num_chunks, chunk_index, chunks>>
    /\ UNCHANGED <<serial_vars, lookup, chain_vars, other, request>>

\* translate_and_write_chunk, line 147: the hard stop is reached
TranslateReturn ==
    /\ pc = "tc_last"
    /\ ~(ff.num_reads < ff.hard_stop_num_reads)
    /\ pc' = "chunk_translated"
    /\ UNCHANGED <<source, num_bins, reader_pos, record, split_index, bld, writer, ds,
                   loaded_index, num_chunks, chunk_index, ff, out, chunks>>
    /\ UNCHANGED <<serial_vars, lookup, chain_vars, write_record, other, command_vars>>

\* ------------------------------------------------------- the chain reader
\* u64 arithmetic: the value modulo the width, and whether it left the range
\* (a debug build panics there, a release build keeps the wrapped value)
U64Range == UsizeRange

U64Add(a, b) == [val |-> (a + b) % U64Range, over |-> a + b >= U64Range]

U64Sub(a, b) == [val |-> (a - b + U64Range) % U64Range, over |-> a < b]

\* the two streams hold distinct bytes, so that what was read tells where it came from
FrontByte(i) == i + 1

BackByte(i) == 101 + i

\* Read::read of an underlying stream at pos, for a buffer of n bytes: the counts
\* it may return (0 only for an empty buffer or at the end)
ReadCounts(pos, end, n) ==
    IF n = 0 \/ pos >= end
    THEN {0}
    ELSE 1..(IF n < end - pos THEN n ELSE end - pos)

NoChain ==
    [front_end |-> 0, front_pos |-> 0, back_end |-> 0, back_pos |-> 0,
     past_front |-> FALSE, initial_front_pos |-> 0, front_len |-> 0,
     initial_back_pos |-> 0]

NoTrace ==
    [call |-> "none", arg |-> 0, ret |-> 0, prev_start |-> -1,
     seek |-> "none", origin |-> 0, bytes |-> <<>>, eof |-> FALSE, before |-> 0,
     unchanged |-> TRUE, wrapped |-> FALSE]

\* Chain::new's initial value of past_front
ChainNewPastFront(initial_front_pos, front_len) == initial_front_pos >= front_len

\* Chain::new(front, back), front being front_end bytes long and at front_pos, back alike
ChainNew(front_end, front_pos, back_end, back_pos) ==
    LET initial_front_pos == front_pos
        front_len == front_end - initial_front_pos
    IN [front_end |-> front_end, front_pos |-> initial_front_pos,
        back_end |-> back_end, back_pos |-> back_pos,
        past_front |-> ChainNewPastFront(initial_front_pos, front_len),
        initial_front_pos |-> initial_front_pos, front_len |-> front_len,
        initial_back_pos |-> back_pos]

\* stream_position without the shift of the back stream
StreamPositionUnshifted(c) ==
    IF c.past_front
    THEN U64Add(c.front_len, c.back_pos)
    ELSE U64Sub(c.front_pos, c.initial_front_pos)

\* Chain::stream_position
StreamPosition(c) ==
    IF c.past_front
    THEN LET sum == U64Add(c.front_len, c.back_pos)
             pos == U64Sub(sum.val, c.initial_back_pos)
         IN [val |-> pos.val, over |-> sum.over \/ pos.over]
    ELSE U64Sub(c.front_pos, c.initial_front_pos)

\* seek(Start) that leaves the back stream where it was when the target is in the front
SeekStartKeepsBack(c, pos_from_start) ==
    IF pos_from_start >= c.front_len
    THEN LET rel == U64Sub(pos_from_start, c.front_len)
             to == U64Add(rel.val, c.initial_back_pos)
         IN [chain |-> [c EXCEPT !.past_front = TRUE, !.back_pos = to.val],
             ret |-> pos_from_start, over |-> rel.over \/ to.over]
    ELSE LET to == U64Add(pos_from_start, c.initial_front_pos)
         IN [chain |-> [c EXCEPT !.past_front = FALSE, !.front_pos = to.val],
             ret |-> pos_from_start, over |-> to.over]

\* Chain::seek(SeekFrom::Start(pos_from_start))
SeekStart(c, pos_from_start) ==
    IF pos_from_start >= c.front_len
    THEN LET rel == U64Sub(pos_from_start, c.front_len)
             to == U64Add(rel.val, c.initial_back_pos)
         IN [chain |-> [c EXCEPT !.past_front = TRUE, !.back_pos = to.val],
             ret |-> pos_from_start, over |-> rel.over \/ to.over]
    ELSE LET to == U64Add(pos_from_start, c.initial_front_pos)
         IN [chain |-> [c EXCEPT !.back_pos = c.initial_back_pos,
                                 !.past_front = FALSE, !.front_pos = to.val],
             ret |-> pos_from_start, over |-> to.over]

\* Chain::seek(SeekFrom::Current(pos_from_current))
SeekCurrent(c, pos_from_current) ==
    LET here == StreamPosition(c)
    IN IF pos_from_current = 0
       THEN [chain |-> c, ret |-> here.val, over |-> here.over]
       ELSE LET pos_from_start == IF pos_from_current > 0
                                  THEN U64Add(here.val, pos_from_current)
                                  ELSE U64Sub(here.val, -pos_from_current)
                sought == SeekStart(c, pos_from_start.val)
            IN [sought EXCEPT !.over = @ \/ here.over \/ pos_from_start.over]

\* seek(End) that takes the end of the back stream for the length of the chain
SeekEndBackOnly(c, pos_from_end) ==
    IF pos_from_end >= 0
    THEN LET to == U64Add(c.back_end, pos_from_end)
         IN [chain |-> [c EXCEPT !.past_front = TRUE, !.front_pos = c.front_end,
                                 !.back_pos = to.val],
             ret |-> to.val, over |-> to.over]
    ELSE LET at_end == [c EXCEPT !.back_pos = c.back_end]
             pos_from_start == U64Sub(c.back_end, -pos_from_end)
             sought == SeekStart(at_end, pos_from_start.val)
         IN [sought EXCEPT !.over = @ \/ pos_from_start.over]

\* Chain::seek(SeekFrom::End(pos_from_end))
SeekEnd(c, pos_from_end) ==
    IF pos_from_end >= 0
    THEN LET to == U64Add(c.back_end, pos_from_end)
             sum == U64Add(c.front_len, to.val)
             pos == U64Sub(sum.val, c.initial_back_pos)
         IN [chain |-> [c EXCEPT !.past_front = TRUE, !.front_pos = c.front_end,
                                 !.back_pos = to.val],
             ret |-> pos.val, over |-> to.over \/ sum.over \/ pos.over]
    ELSE LET at_end == [c EXCEPT !.back_pos = c.back_end]
             sum == U64Add(c.front_len, c.back_end)
             stream_length == U64Sub(sum.val, c.initial_back_pos)
             pos_from_start == U64Sub(stream_length.val, -pos_from_end)
             sought == SeekStart(at_end, pos_from_start.val)
         IN [sought EXCEPT !.over = @ \/ sum.over \/ stream_length.over
                                      \/ pos_from_start.over]

\* the bytes a stream hands out from pos on, num of them
FrontBytes(pos, num) == [k \in 1..num |-> FrontByte(pos + k - 1)]

BackBytes(pos, num) == [k \in 1..num |-> BackByte(pos + k - 1)]

\* a read that hands the end of the front stream through as the end of the chain
ChainReadStopsAtFront(c, n) ==
    IF c.past_front
    THEN { [chain |-> [c EXCEPT !.back_pos = @ + num], bytes |-> BackBytes(c.back_pos, num)]
           : num \in ReadCounts(c.back_pos, c.back_end, n) }
    ELSE { [chain |-> [c EXCEPT !.front_pos = @ + num],
            bytes |-> FrontBytes(c.front_pos, num)]
           : num \in ReadCounts(c.front_pos, c.front_end, n) }

\* Chain::read(buf), buf of n bytes: the chain and the bytes put in buf, for every
\* count the underlying read may return
ChainRead(c, n) ==
    IF c.past_front
    THEN { [chain |-> [c EXCEPT !.back_pos = @ + num], bytes |-> BackBytes(c.back_pos, num)]
           : num \in ReadCounts(c.back_pos, c.back_end, n) }
    ELSE UNION { IF 0 = num /\ n # 0
                 THEN { [chain |-> [c EXCEPT !.past_front = TRUE, !.back_pos = @ + more],
                         bytes |-> BackBytes(c.back_pos, more)]
                        : more \in ReadCounts(c.back_pos, c.back_end, n) }
                 ELSE { [chain |-> [c EXCEPT !.front_pos = @ + num],
                         bytes |-> FrontBytes(c.front_pos, num)] }
                 : num \in ReadCounts(c.front_pos, c.front_end, n) }

\* ------------------------------------------------------------ pipeline
Init ==
    /\ source \in SeqsUpTo(Qnames, MaxReads)
    /\ num_bins \in 1..MaxBins
    /\ pc = "build"
    /\ reader_pos = HeaderLen
    /\ record = NoRecord
    /\ split_index = <<>>
    /\ bld = NoBuild
    /\ writer \in {NoWriter, [present |-> TRUE, records |-> <<>>]}
    /\ ds = NoDownsize
    /\ loaded_index = <<>>
    /\ num_chunks = 0
    /\ chunk_index = 0
    /\ ff = NoFastForward
    /\ out = <<>>
    /\ chunks = <<>>
    /\ file = <<>>
    /\ bytes = <<>>
    /\ len = <<>>
    /\ lookup = NoSplitRange
    /\ chain = NoChain
    /\ trace = NoTrace
    /\ write_record = FastqRecordNew
    /\ other = NoExtractor
    /\ request = NoRequest
    /\ response = NoResponse

Next ==
    \/ BuildFirst
    \/ BuildStep
    \/ BuildFinish
    \/ KeepRaw
    \/ DownsizeBegin
    \/ DownsizeStep
    \/ DownsizeFinish
    \/ StartChunks
    \/ FastForwardSeek
    \/ FastForwardFirst
    \/ FastForwardWalk
    \/ FastForwardWalkDone
    \/ FastForwardInfo
    \/ WriteChunkBegin
    \/ WriteChunkGroupFirst
    \/ WriteChunkGroupRest
    \/ WriteChunkNextGroup
    \/ WriteChunkLastFirst
    \/ WriteChunkLastRest
    \/ WriteChunkReturn
    \/ ChunkDone

Spec == Init /\ [][Next]_vars

\* the pipeline, each chunk written by write_chunk or, then as its last one, by
\* translate_and_write_chunk into a FASTQ writer
InitTranslate ==
    /\ Init
    /\ ~writer.present

NextTranslate ==
    \/ BuildFirst
    \/ BuildStep
    \/ BuildFinish
    \/ KeepRaw
    \/ DownsizeBegin
    \/ DownsizeStep
    \/ DownsizeFinish
    \/ StartChunks
    \/ FastForwardSeek
    \/ FastForwardFirst
    \/ FastForwardWalk
    \/ FastForwardWalkDone
    \/ FastForwardInfo
    \/ WriteChunkBegin
    \/ WriteChunkGroupFirst
    \/ WriteChunkGroupRest
    \/ WriteChunkNextGroup
    \/ WriteChunkLastFirst
    \/ WriteChunkLastRest
    \/ WriteChunkReturn
    \/ ChunkDone
    \/ TranslateChunkBegin
    \/ TranslateGroupFirst
    \/ TranslateGroupRest
    \/ TranslateNextGroup
    \/ TranslateLastFirst
    \/ TranslateLastRest
    \/ TranslateReturn

SpecTranslate == InitTranslate /\ [][NextTranslate]_vars

\* ---------------------------------------- downsize_reads on any index

\* Any index of at most MaxBins records: arbitrary counts qs, monotonic or not
\* (an index read from a file is whatever the file holds), reads = queries + es
IndexInputs(qs, es) ==
    [i \in 1..Len(qs) |-> SplitRecord(HeaderLen + 2 * (i - 1), qs[i], qs[i] + es[i])]

InitDownsize ==
    /\ source = <<>>
    /\ num_bins = 1
    /\ pc = "built"
    /\ reader_pos = HeaderLen
    /\ record = NoRecord
    /\ \E qs \in SeqsUpTo(0..MaxCount, MaxBins) :
         \E es \in [1..Len(qs) -> 0..1] : split_index = IndexInputs(qs, es)
    /\ bld = NoBuild
    /\ writer = NoWriter
    /\ ds = NoDownsize
    /\ loaded_index = <<>>
    /\ num_chunks = 0
    /\ chunk_index = 0
    /\ ff = NoFastForward
    /\ out = <<>>
    /\ chunks = <<>>
    /\ file = <<>>
    /\ bytes = <<>>
    /\ len = <<>>
    /\ lookup = NoSplitRange
    /\ chain = NoChain
    /\ trace = NoTrace
    /\ write_record = FastqRecordNew
    /\ other = NoExtractor
    /\ request = NoRequest
    /\ response = NoResponse

NextDownsize ==
    \/ DownsizeBegin
    \/ DownsizeStep
    \/ DownsizeFinish

SpecDownsize == InitDownsize /\ [][NextDownsize]_vars

\* ------------------------------------- index_reads alone, on longer sources

\* index_reads with no passthrough output: build, then downsize_reads
InitIndex ==
    /\ source \in SeqsUpTo(Qnames, MaxIndexReads)
    /\ num_bins \in 1..MaxBins
    /\ pc = "build"
    /\ reader_pos = HeaderLen
    /\ record = NoRecord
    /\ split_index = <<>>
    /\ bld = NoBuild
    /\ writer = NoWriter
    /\ ds = NoDownsize
    /\ loaded_index = <<>>
    /\ num_chunks = 0
    /\ chunk_index = 0
    /\ ff = NoFastForward
    /\ out = <<>>
    /\ chunks = <<>>
    /\ file = <<>>
    /\ bytes = <<>>
    /\ len = <<>>
    /\ lookup = NoSplitRange
    /\ chain = NoChain
    /\ trace = NoTrace
    /\ write_record = FastqRecordNew
    /\ other = NoExtractor
    /\ request = NoRequest
    /\ response = NoResponse

NextIndex ==
    \/ BuildFirst
    \/ BuildStep
    \/ BuildFinish
    \/ DownsizeBegin
    \/ DownsizeStep
    \/ DownsizeFinish

SpecIndex == InitIndex /\ [][NextIndex]_vars

\* ------------------------------------------- serialize and deserialize

\* size_of::<usize>() = size_of::<u64>()
WordLen == 8

\* b'\n'
Newline == 10

\* b"split-index "
ExpectedFront == <<115, 112, 108, 105, 116, 45, 105, 110, 100, 101, 120, 32>>

\* VERSION = "1.0"
VERSION == <<49, 46, 48>>

\* size_of::<SplitRecord>()
SplitRecordLen == 3 * WordLen

\* the least record count whose allocation is larger than isize::MAX bytes, in
\* little-endian bytes: (2^63 - 1) div 24 + 1 = 0x0555555555555556
CapacityLimit == <<86, 85, 85, 85, 85, 85, 85, 5>>

\* v.to_le_bytes(), k bytes
RECURSIVE ToLeBytes(_, _)
ToLeBytes(v, k) == IF k = 0 THEN <<>> ELSE <<v % 256>> \o ToLeBytes(v \div 256, k - 1)

\* the word decoded from its two low bytes only
FromLeBytesLowHalf(w) == IF Len(w) < 2 THEN 0 ELSE w[1] + 256 * w[2]

\* usize::from_le_bytes / u64::from_le_bytes
RECURSIVE FromLeBytes(_)
FromLeBytes(w) == IF Len(w) = 0 THEN 0 ELSE w[1] + 256 * FromLeBytes(Tail(w))

\* a < b for two little-endian words of the same length
RECURSIVE WordLess(_, _)
WordLess(a, b) ==
    IF Len(a) = 0 THEN FALSE
    ELSE IF a[Len(a)] # b[Len(b)] THEN a[Len(a)] < b[Len(b)]
    ELSE WordLess(SubSeq(a, 1, Len(a) - 1), SubSeq(b, 1, Len(b) - 1))

\* SplitRecord::serialize
SerializeRecord(r) ==
    ToLeBytes(r.offset, WordLen) \o ToLeBytes(r.num_queries, WordLen)
        \o ToLeBytes(r.num_reads, WordLen)

RECURSIVE SerializeRecords(_)
SerializeRecords(idx) ==
    IF Len(idx) = 0 THEN <<>>
    ELSE SerializeRecord(Head(idx)) \o SerializeRecords(Tail(idx))

\* SplitIndex::serialize
Serialize(idx) ==
    ExpectedFront \o VERSION \o <<Newline>> \o ToLeBytes(Len(idx), WordLen)
        \o SerializeRecords(idx)

\* split_off(bytes, ..n): Err when bytes.len() lies in ..n, else the first n bytes
\* drained
SplitOff(b, n) ==
    IF Len(b) < n
    THEN [ok |-> FALSE, taken |-> <<>>, rest |-> b]
    ELSE [ok |-> TRUE, taken |-> SubSeq(b, 1, n), rest |-> SubSeq(b, n + 1, Len(b))]

\* SplitRecord::deserialize: three words drained one after the other
DeserializeRecord(b) ==
    LET o == SplitOff(b, WordLen)
        q == SplitOff(o.rest, WordLen)
        r == SplitOff(q.rest, WordLen)
    IN IF o.ok /\ q.ok /\ r.ok
       THEN [ok |-> TRUE,
             rec |-> SplitRecord(FromLeBytes(o.taken), FromLeBytes(q.taken),
                                 FromLeBytes(r.taken)),
             rest |-> r.rest]
       ELSE [ok |-> FALSE, rec |-> NoSplitRecord, rest |-> r.rest]

\* bytes.iter().position(|c| *c == b'\n'), 1-based; 0 for None
Position(b, c) ==
    IF \E i \in 1..Len(b) : b[i] = c
    THEN CHOOSE i \in 1..Len(b) : b[i] = c /\ \A j \in 1..(i - 1) : b[j] # c
    ELSE 0

\* String::from_utf8 succeeds; a byte above 127 is counted as an error here: as part
\* of valid UTF-8 it would make a version that is not VERSION, an error as well
IsUtf8(b) == \A i \in 1..Len(b) : b[i] < 128

\* check_header: Ok(version) with the header drained, or Err
CheckHeader(b) ==
    LET pos == Position(b, Newline)
        header == SubSeq(b, 1, pos)
        rest == SubSeq(b, pos + 1, Len(b))
        after_front == SubSeq(header, Len(ExpectedFront) + 1, Len(header))
    IN IF pos = 0
       THEN [ok |-> FALSE, version |-> <<>>, rest |-> b]
       ELSE IF Len(header) < Len(ExpectedFront)
       THEN [ok |-> FALSE, version |-> <<>>, rest |-> rest]
       ELSE IF SubSeq(header, 1, Len(ExpectedFront)) # ExpectedFront
       THEN [ok |-> FALSE, version |-> <<>>, rest |-> rest]
       ELSE IF ~IsUtf8(after_front)
       THEN [ok |-> FALSE, version |-> <<>>, rest |-> rest]
       ELSE [ok |-> TRUE,
             version |-> SubSeq(after_front, 1, Len(after_front) - 1),
             rest |-> rest]

\* the version accepted on its first two characters
VersionMatchesMajor(version) ==
    Len(version) >= 2 /\ SubSeq(version, 1, 2) = SubSeq(VERSION, 1, 2)

\* deserialize, line 354: version == VERSION
VersionMatches(version) == version = VERSION

\* Vec::with_capacity(len) panics ("capacity overflow") when len records take more
\* than isize::MAX bytes; any smaller allocation is taken to succeed
CapacityOverflows(w) == ~WordLess(w, CapacityLimit)

\* sample records with arbitrary fields, as random_split_record draws them
SplitRecordSamples ==
    {SplitRecord(0, 0, 0), SplitRecord(1, 256, 65535),
     SplitRecord(2147483647, 1, 0), SplitRecord(258, 16777216, 255)}

\* values a damaged byte of the file may take
ByteSamples == {0, 1, 10, 32, 46, 48, 49, 50, 128, 255}

InitSerial ==
    /\ source = <<>>
    /\ num_bins = 1
    /\ pc = "serialize"
    /\ reader_pos = HeaderLen
    /\ record = NoRecord
    /\ split_index \in SeqsUpTo(SplitRecordSamples, MaxSerialRecords)
    /\ bld = NoBuild
    /\ writer = NoWriter
    /\ ds = NoDownsize
    /\ loaded_index = <<>>
    /\ num_chunks = 0
    /\ chunk_index = 0
    /\ ff = NoFastForward
    /\ out = <<>>
    /\ chunks = <<>>
    /\ file = <<>>
    /\ bytes = <<>>
    /\ len = <<>>
    /\ lookup = NoSplitRange
    /\ chain = NoChain
    /\ trace = NoTrace
    /\ write_record = FastqRecordNew
    /\ other = NoExtractor
    /\ request = NoRequest
    /\ response = NoResponse

\* everything serialize and deserialize leave alone
pipeline_vars == <<source, num_bins, reader_pos, record, split_index, bld, writer, ds,
                   num_chunks, chunk_index, ff, out, chunks>>

\* SplitIndex::write: the file holds serialize's bytes
SerializeIndex ==
    /\ pc = "serialize"
    /\ file' = Serialize(split_index)
    /\ pc' = "stored"
    /\ UNCHANGED <<pipeline_vars, chain_vars, write_record, other, command_vars, lookup, loaded_index, bytes, len>>

\* the file loses its end
Truncate ==
    /\ pc = "stored"
    /\ \E k \in 0..(Len(file) - 1) : file' = SubSeq(file, 1, k)
    /\ pc' = "damaged"
    /\ UNCHANGED <<pipeline_vars, chain_vars, write_record, other, command_vars, lookup, loaded_index, bytes, len>>

\* one byte of the header or of the record count changes
CorruptByte ==
    /\ pc = "stored"
    /\ \E i \in 1..(Len(ExpectedFront) + Len(VERSION) + 1 + WordLen) :
         \E b \in ByteSamples \ {file[i]} : file' = [file EXCEPT ![i] = b]
    /\ pc' = "damaged"
    /\ UNCHANGED <<pipeline_vars, chain_vars, write_record, other, command_vars, lookup, loaded_index, bytes, len>>

\* deserialize, lines 351-356: check_header, then the version
DeserializeHeader ==
    /\ pc \in {"stored", "damaged"}
    /\ LET h == CheckHeader(file)
       IN /\ bytes' = h.rest
          /\ pc' = IF h.ok /\ VersionMatches(h.version) THEN "de_len" ELSE "error"
    /\ UNCHANGED <<pipeline_vars, chain_vars, write_record, other, command_vars, lookup, loaded_index, file, len>>

\* deserialize, lines 357-359: the record count, then with_capacity
DeserializeLen ==
    /\ pc = "de_len"
    /\ LET s == SplitOff(bytes, WordLen)
       IN IF s.ok
          THEN /\ len' = s.taken
               /\ bytes' = s.rest
               /\ pc' = IF CapacityOverflows(s.taken) THEN "panic" ELSE "de_records"
          ELSE /\ pc' = "error"
               /\ UNCHANGED <<bytes, len>>
    /\ UNCHANGED <<pipeline_vars, chain_vars, write_record, other, command_vars, lookup, loaded_index, file>>

\* deserialize, lines 360-362: one iteration of the loop over 0..len
DeserializeStep ==
    /\ pc = "de_records"
    /\ WordLess(ToLeBytes(Len(loaded_index), WordLen), len)
    /\ LET r == DeserializeRecord(bytes)
       IN IF r.ok
          THEN /\ loaded_index' = Append(loaded_index, r.rec)
               /\ bytes' = r.rest
               /\ pc' = pc
          ELSE \* the index under construction is dropped with the error
               /\ loaded_index' = <<>>
               /\ bytes' = r.rest
               /\ pc' = "error"
    /\ UNCHANGED <<pipeline_vars, chain_vars, write_record, other, command_vars, lookup, file, len>>

\* deserialize, line 363: Ok(split_index)
DeserializeReturn ==
    /\ pc = "de_records"
    /\ ~WordLess(ToLeBytes(Len(loaded_index), WordLen), len)
    /\ pc' = "deserialized"
    /\ UNCHANGED <<pipeline_vars, chain_vars, write_record, other, command_vars, lookup, loaded_index, file, bytes, len>>

NextSerial ==
    \/ SerializeIndex
    \/ Truncate
    \/ CorruptByte
    \/ DeserializeHeader
    \/ DeserializeLen
    \/ DeserializeStep
    \/ DeserializeReturn

SpecSerial == InitSerial /\ [][NextSerial]_vars

\* ------------------------------------------ get_chunk_query_start alone

\* an index of T query groups, and any chunk_index of any num_chunks
InitChunkStart ==
    /\ source = <<>>
    /\ num_bins = 1
    /\ pc = "chunk_start"
    /\ reader_pos = HeaderLen
    /\ record = NoRecord
    /\ split_index = <<>>
    /\ bld = NoBuild
    /\ writer = NoWriter
    /\ ds = NoDownsize
    /\ \E t \in 0..MaxStartQueries :
          loaded_index = IF t = 0 THEN <<>> ELSE <<SplitRecord(HeaderLen, t, t)>>
    /\ num_chunks \in 1..MaxStartChunks
    /\ chunk_index \in 0..(MaxStartChunks + 1)
    /\ ff = NoFastForward
    /\ out = <<>>
    /\ chunks = <<>>
    /\ file = <<>>
    /\ bytes = <<>>
    /\ len = <<>>
    /\ lookup = NoSplitRange
    /\ chain = NoChain
    /\ trace = NoTrace
    /\ write_record = FastqRecordNew
    /\ other = NoExtractor
    /\ request = NoRequest
    /\ response = NoResponse

\* get_chunk_query_start(chunk_index, num_chunks): Err, or the start; where a
\* product overflows, the wrapped value or the panic of a build with overflow checks
ChunkQueryStart ==
    /\ pc = "chunk_start"
    /\ LET start == GetChunkQueryStart(loaded_index, chunk_index, num_chunks)
       IN IF ~start.ok
          THEN pc' = "chunk_start_err" /\ UNCHANGED ff
          ELSE \/ /\ ff' = [ff EXCEPT !.start_num_queries = start.val]
                  /\ pc' = "chunk_start_ok"
               \/ /\ ChunkQueryStartOverflows(loaded_index, chunk_index, num_chunks)
                  /\ pc' = "panic"
                  /\ UNCHANGED ff
    /\ UNCHANGED <<source, num_bins, reader_pos, record, split_index, bld, writer, ds,
                   loaded_index, num_chunks, chunk_index, out, chunks>>
    /\ UNCHANGED <<serial_vars, lookup, chain_vars, write_record, other, command_vars>>

NextChunkStart == ChunkQueryStart

SpecChunkStart == InitChunkStart /\ [][NextChunkStart]_vars

\* -------------------------------------- get_record_for_num_queries alone

\* an index as build keeps it, with strictly increasing counts, and any number of
\* query groups to look up
InitLookup ==
    /\ source = <<>>
    /\ num_bins = 1
    /\ pc = "lookup"
    /\ reader_pos = HeaderLen
    /\ record = NoRecord
    /\ split_index = <<>>
    /\ bld = NoBuild
    /\ writer = NoWriter
    /\ ds = NoDownsize
    /\ \E qs \in SeqsUpTo(1..MaxCount, MaxBins) :
         /\ \A i \in 2..Len(qs) : qs[i] > qs[i - 1]
         /\ \E es \in [1..Len(qs) -> 0..1] :
              /\ \A i \in 2..Len(qs) : qs[i] + es[i] > qs[i - 1] + es[i - 1]
              /\ loaded_index = IndexInputs(qs, es)
    /\ num_chunks = 0
    /\ chunk_index = 0
    /\ \E n \in 0..(MaxCount + 1) : ff = [NoFastForward EXCEPT !.start_num_queries = n]
    /\ out = <<>>
    /\ chunks = <<>>
    /\ file = <<>>
    /\ bytes = <<>>
    /\ len = <<>>
    /\ lookup = NoSplitRange
    /\ chain = NoChain
    /\ trace = NoTrace
    /\ write_record = FastqRecordNew
    /\ other = NoExtractor
    /\ request = NoRequest
    /\ response = NoResponse

\* split_index.get_record_for_num_queries(start_num_queries)
LookupRecord ==
    /\ pc = "lookup"
    /\ lookup' = GetRecordForNumQueries(loaded_index, ff.start_num_queries)
    /\ pc' = "looked_up"
    /\ UNCHANGED <<pipeline_vars, chain_vars, write_record, other, command_vars, loaded_index, serial_vars>>

NextLookup == LookupRecord

SpecLookup == InitLookup /\ [][NextLookup]_vars

\* ------------------------------------------- the chain reader, call by call
\* a chain built over a front stream of up to MaxFront bytes and a back stream
\* of up to MaxBack bytes, each at a position of its own
InitChain ==
    /\ source = <<>>
    /\ num_bins = 1
    /\ pc = "chain"
    /\ reader_pos = HeaderLen
    /\ record = NoRecord
    /\ split_index = <<>>
    /\ bld = NoBuild
    /\ writer = NoWriter
    /\ ds = NoDownsize
    /\ loaded_index = <<>>
    /\ num_chunks = 0
    /\ chunk_index = 0
    /\ ff = NoFastForward
    /\ out = <<>>
    /\ chunks = <<>>
    /\ file = <<>>
    /\ bytes = <<>>
    /\ len = <<>>
    /\ lookup = NoSplitRange
    /\ \E front_end \in 0..MaxFront, back_end \in 0..MaxBack :
         \E front_pos \in 0..front_end, back_pos \in 0..back_end :
            chain = ChainNew(front_end, front_pos, back_end, back_pos)
    /\ trace = [NoTrace EXCEPT !.call = "new", !.seek = "new"]
    /\ write_record = FastqRecordNew
    /\ other = NoExtractor
    /\ request = NoRequest
    /\ response = NoResponse

\* the position the calls made so far have left the chain at: the one the last
\* seek returned plus the bytes read since; for a chain never sought, its own
Before ==
    IF trace.seek = "new"
    THEN StreamPosition(chain).val
    ELSE trace.origin + Len(trace.bytes)

\* a seek returns r: Ok with the chain moved, Ok with a wrapped position where
\* the arithmetic left the range, or a panic there; the calls that follow a
\* wrapped seek are not followed
Sought(call, arg, r) ==
    /\ trace' = [call |-> call, arg |-> arg, ret |-> r.ret,
                 prev_start |-> IF trace.call = "start" THEN trace.arg ELSE -1,
                 seek |-> call, origin |-> r.ret, bytes |-> <<>>, eof |-> FALSE,
                 before |-> IF call = "start" THEN 0 ELSE Before,
                 unchanged |-> (r.chain = chain),
                 wrapped |-> r.over]
    /\ \/ /\ chain' = r.chain
          /\ pc' = IF r.over THEN "wrapped" ELSE "chain"
       \/ /\ r.over
          /\ pc' = "panic"
          /\ UNCHANGED chain
    /\ UNCHANGED <<pipeline_vars, loaded_index, serial_vars, lookup, write_record, other, command_vars>>

\* chain.seek(SeekFrom::Start(p))
ChainSeekStart ==
    /\ pc = "chain"
    /\ \E p \in 0..MaxSeek : Sought("start", p, SeekStart(chain, p))

\* chain.seek(SeekFrom::Current(n)), no further forward than MaxSeek
ChainSeekCurrent ==
    /\ pc = "chain"
    /\ \E n \in -MaxSeek..MaxSeek :
         /\ n > 0 => StreamPosition(chain).val + n <= MaxSeek
         /\ Sought("current", n, SeekCurrent(chain, n))

\* chain.seek(SeekFrom::End(n)), no further forward than one byte past the end
ChainSeekEnd ==
    /\ pc = "chain"
    /\ \E n \in -MaxSeek..1 : Sought("end", n, SeekEnd(chain, n))

\* chain.read(buf) with a buffer of n bytes
ChainReadBuf ==
    /\ pc = "chain"
    /\ \E n \in 0..MaxBuf :
         \E r \in ChainRead(chain, n) :
            /\ chain' = r.chain
            /\ trace' = [trace EXCEPT !.call = "read", !.arg = n, !.ret = Len(r.bytes),
                                      !.prev_start = -1,
                                      !.bytes = @ \o r.bytes,
                                      !.eof = @ \/ (n # 0 /\ r.bytes = <<>>),
                                      !.before = 0,
                                      !.unchanged = (r.chain = chain),
                                      !.wrapped = FALSE]
    /\ UNCHANGED <<pc, pipeline_vars, loaded_index, serial_vars, lookup, write_record, other, command_vars>>

NextChain == ChainSeekStart \/ ChainSeekCurrent \/ ChainSeekEnd \/ ChainReadBuf

SpecChain == InitChain /\ [][NextChain]_vars

\* ------------------------------------ get-chunk on a source that was cut short
\* the source loses its last records after it was indexed
TruncateSource ==
    /\ pc = "indexed"
    /\ \E k \in 0..(Len(source) - 1) : source' = SubSeq(source, 1, k)
    /\ UNCHANGED <<pc, num_bins, reader_pos, record, split_index, bld, writer, ds,
                   loaded_index, num_chunks, chunk_index, ff, out, chunks>>
    /\ UNCHANGED <<serial_vars, lookup, chain_vars, write_record, other, command_vars>>

InitTruncated ==
    /\ Init
    /\ ~writer.present

NextTruncated ==
    \/ BuildFirst
    \/ BuildStep
    \/ BuildFinish
    \/ KeepRaw
    \/ DownsizeBegin
    \/ DownsizeStep
    \/ DownsizeFinish
    \/ TruncateSource
    \/ StartChunks
    \/ FastForwardSeek
    \/ FastForwardFirst
    \/ FastForwardWalk
    \/ FastForwardWalkDone
    \/ FastForwardInfo
    \/ WriteChunkBegin
    \/ WriteChunkGroupFirst
    \/ WriteChunkGroupRest
    \/ WriteChunkNextGroup
    \/ WriteChunkLastFirst
    \/ WriteChunkLastRest
    \/ WriteChunkReturn
    \/ ChunkDone

SpecTruncated == InitTruncated /\ [][NextTruncated]_vars

\* ------------------------------------------ two extractors, steps interleaved
\* what an extractor owns: its chunk, its reader's cursor, its record buffer, its
\* counters and its sink
Extractor(at, chunk, pos, rec, info, sink) ==
    [pc |-> at, chunk_index |-> chunk, reader_pos |-> pos, record |-> rec,
     ff |-> info, out |-> sink]

\* the cursor of an extractor that reads through a reader shared with the other
SharedReaderPos(extractor, pos) == pos

\* the cursor of an extractor that is resumed: the one of its own reader
OwnReaderPos(extractor, pos) == extractor.reader_pos

\* get-chunk is run for two different chunks of num_chunks at once, each with a
\* reader and a sink of its own
StartExtractors ==
    /\ pc = "indexed"
    /\ \E n \in 2..MaxChunks :
         \E a \in 0..(n - 1), b \in 0..(n - 1) :
            /\ a # b
            /\ num_chunks' = n
            /\ chunk_index' = a
            /\ other' = Extractor("fast_forward", b, HeaderLen, NoRecord, NoFastForward, <<>>)
    /\ reader_pos' = HeaderLen
    /\ pc' = "fast_forward"
    /\ UNCHANGED <<source, num_bins, record, split_index, bld, writer, ds,
                   loaded_index, ff, out, chunks>>
    /\ UNCHANGED <<serial_vars, lookup, chain_vars, write_record, command_vars>>

\* the running extractor is set aside between two of its steps and the other one,
\* if it has steps left, runs on
Switch ==
    /\ pc \in {"fast_forward", "ff_first", "ff_walk", "ff_hard_stop", "write_chunk",
                "wc_outer", "wc_inner", "wc_last", "chunk_done", "error"}
    /\ other.pc \notin {"none", "chunk_done", "error"}
    /\ other' = Extractor(pc, chunk_index, reader_pos, record, ff, out)
    /\ pc' = other.pc
    /\ chunk_index' = other.chunk_index
    /\ reader_pos' = OwnReaderPos(other, reader_pos)
    /\ record' = other.record
    /\ ff' = other.ff
    /\ out' = other.out
    /\ UNCHANGED <<source, num_bins, split_index, bld, writer, ds, loaded_index,
                   num_chunks, chunks>>
    /\ UNCHANGED <<serial_vars, lookup, chain_vars, write_record, command_vars>>

\* the index is the one build returns, for a source of fewer than MaxReads records
InitInterleaved ==
    /\ Init
    /\ ~writer.present
    /\ Len(source) < MaxReads

NextInterleaved ==
    \/ BuildFirst
    \/ BuildStep
    \/ BuildFinish
    \/ KeepRaw
    \/ StartExtractors
    \/ Switch
    \/ FastForwardSeek
    \/ FastForwardFirst
    \/ FastForwardWalk
    \/ FastForwardWalkDone
    \/ FastForwardInfo
    \/ WriteChunkBegin
    \/ WriteChunkGroupFirst
    \/ WriteChunkGroupRest
    \/ WriteChunkNextGroup
    \/ WriteChunkLastFirst
    \/ WriteChunkLastRest
    \/ WriteChunkReturn

SpecInterleaved == InitInterleaved /\ [][NextInterleaved]_vars

\* ------------------------------------------- get-chunk: the output record type
\* Option<T>
None == [some |-> FALSE, val |-> ""]

Some(v) == [some |-> TRUE, val |-> v]

\* the pipeline's variables, for the commands that do not run it
IdlePipeline ==
    /\ source = <<>>
    /\ num_bins = 1
    /\ reader_pos = HeaderLen
    /\ record = NoRecord
    /\ split_index = <<>>
    /\ bld = NoBuild
    /\ writer = NoWriter
    /\ ds = NoDownsize
    /\ loaded_index = <<>>
    /\ num_chunks = 0
    /\ chunk_index = 0
    /\ ff = NoFastForward
    /\ out = <<>>
    /\ chunks = <<>>
    /\ file = <<>>
    /\ bytes = <<>>
    /\ len = <<>>
    /\ lookup = NoSplitRange
    /\ chain = NoChain
    /\ trace = NoTrace
    /\ write_record = FastqRecordNew
    /\ other = NoExtractor

\* str::to_ascii_lowercase, on the extensions of the model
ToAsciiLowercase(s) ==
    CASE s = "BAM" -> "bam"
      [] s = "FQ" -> "fq"
      [] OTHER -> s

\* RecordType::from_extension
FromExtension(extension) ==
    IF extension.some
    THEN LET lower == ToAsciiLowercase(extension.val)
         IN CASE lower \in {"fq", "fastq", "gz", "bgz"} -> Some("Fastq")
              [] lower \in {"bam", "sam", "cram"} -> Some("Bam")
              [] OTHER -> None
    ELSE None

\* RecordType::from_path: a path is [scheme, dirs, name, extension], extension
\* being what Path::extension returns
FromPath(path) == FromExtension(path.extension)

\* GetChunk::get_output_record_type
GetOutputRecordType(self, input_record_type) ==
    IF FromPath(self.input).some
    THEN [ok |-> TRUE, value |-> FromPath(self.input).val]
    ELSE IF self.output_format.some
         THEN LET of_format == FromExtension(self.output_format)
              IN IF of_format.some
                 THEN [ok |-> TRUE, value |-> of_format.val]
                 ELSE [ok |-> FALSE, value |-> "Should be unreachable."]
         ELSE [ok |-> TRUE, value |-> input_record_type]

\* a local path name.extension in the working directory; no extension for None
LocalPath(extension) ==
    [scheme |-> "", dirs |-> <<>>, name |-> "reads", extension |-> extension]

\* the pipe "-"
PipePath == [scheme |-> "", dirs |-> <<>>, name |-> "-", extension |-> None]

InputExtensions == {"fq", "fastq", "gz", "bgz", "bam", "sam", "cram", "BAM", "FQ", "txt"}

OutputFormats == {"sam", "bam", "cram", "fastq"}

\* get-chunk --input .. --output .. [--output-format ..]
InitOutputType ==
    /\ IdlePipeline
    /\ pc = "output_type"
    /\ \E input \in {LocalPath(Some(e)) : e \in InputExtensions} \cup {LocalPath(None)},
          output \in {LocalPath(Some(e)) : e \in InputExtensions}
                        \cup {LocalPath(None), PipePath},
          output_format \in {Some(f) : f \in OutputFormats} \cup {None} :
            request = [NoRequest EXCEPT !.input = input, !.output = output,
                                        !.output_format = output_format,
                                        !.operation = "get-chunk"]
    /\ response = NoResponse

\* GetChunk::write_chunk, lines 99-104: the input record type, then the output's
OutputRecordType ==
    /\ pc = "output_type"
    /\ LET input_record_type == FromPath(request.input)
       IN IF ~input_record_type.some
          THEN response' = [ok |-> FALSE,
                            value |-> "Input type must be FASTQ or SAM/BAM/CRAM.",
                            created |-> {}]
          ELSE LET output_record_type ==
                       GetOutputRecordType(request, input_record_type.val)
               IN response' = [ok |-> output_record_type.ok,
                               value |-> output_record_type.value,
                               created |-> {}]
    /\ pc' = "output_type_done"
    /\ UNCHANGED <<pipeline_vars, loaded_index, serial_vars, lookup, chain_vars,
                   write_record, other, request>>

NextOutputType == OutputRecordType

SpecOutputType == InitOutputType /\ [][NextOutputType]_vars

\* ------------------------------------------------- opening an output for writing
URL_PREFIXES == {"s3://", "gcs://", "ftp://", "http://", "https://"}

\* the first component of the Path a URL makes: what stands before its "//"
FirstComponent(prefix) ==
    CASE prefix = "s3://" -> "s3:"
      [] prefix = "gcs://" -> "gcs:"
      [] prefix = "ftp://" -> "ftp:"
      [] prefix = "http://" -> "http:"
      [] OTHER -> "https:"

\* a path given with a URL prefix: prefix, host or bucket and directories, file name
UrlPath(prefix, dirs, extension) ==
    [scheme |-> prefix, dirs |-> dirs, name |-> "reads", extension |-> extension]

\* a local path in a directory below the working directory
LocalPathIn(dirs, extension) ==
    [scheme |-> "", dirs |-> dirs, name |-> "reads", extension |-> extension]

\* PathType::from_path
PathTypeFromPath(path) ==
    IF path = PipePath
    THEN "Pipe"
    ELSE IF path.scheme \in URL_PREFIXES
         THEN "UrlPath"
         ELSE "FilePath"

\* Path::components: runs of separators count once, so the "//" of a URL leaves
\* no empty component
Components(path) ==
    (IF path.scheme = "" THEN <<>> ELSE <<FirstComponent(path.scheme)>>)
        \o path.dirs \o <<[name |-> path.name, extension |-> path.extension]>>

\* Path::parent: the path without its last component
Parent(components) == SubSeq(components, 1, Len(components) - 1)

\* the directories create_dir_all(dir) makes in a working directory that has none
CreateDirAll(dir) == {SubSeq(dir, 1, k) : k \in 1..Len(dir)}

\* open_file, lines 20-34: the pipe, else the parent directories of the path
OpenFileDirs(path, for_writing) ==
    IF path = PipePath
    THEN [ok |-> TRUE, value |-> IF for_writing THEN "/dev/stdout" ELSE "/dev/stdin",
          created |-> {}]
    ELSE [ok |-> TRUE, value |-> "",
          created |-> IF for_writing
                      THEN CreateDirAll(Parent(Components(path)))
                      ELSE {}]

\* open_file, lines 35-43: OpenOptions .. create(for_writing).open(path), the
\* directories made before it being there
OpenFileOpen(path, for_writing, made) ==
    IF for_writing
    THEN [ok |-> TRUE, value |-> "File", created |-> made \cup {Components(path)}]
    ELSE [ok |-> FALSE, value |-> "No such file or directory", created |-> made]

\* MaybeCompressedWriter::is_compressed
IsCompressed(path, compressed) ==
    IF path.extension.some
    THEN path.extension.val \in {"gz", "bgz"}
    ELSE compressed

\* htslib's from_path: the file is made if its directory is there, and only the
\* working directory is
HtsFromPath(path) ==
    IF path.dirs = <<>>
    THEN [ok |-> TRUE, value |-> "Writer", created |-> {Components(path)}]
    ELSE [ok |-> FALSE, value |-> "No such file or directory", created |-> {}]

\* SplitIndex::write, lines 184-188: the writer for the path
SplitIndexWriter(path) ==
    CASE PathTypeFromPath(path) = "Pipe" ->
             [ok |-> TRUE, value |-> "Writer", created |-> {}]
      [] PathTypeFromPath(path) = "FilePath" -> HtsFromPath(path)
      [] OTHER -> [ok |-> FALSE, value |-> "Cannot write directly to a cloud URL",
                   created |-> {}]

\* SamWriterSpec::get_bam_writer
GetBamWriter(self) ==
    IF ~self.output_format.some
    THEN [ok |-> FALSE, value |-> "format was not specified for SamWriterSpec",
          created |-> {}]
    ELSE IF ~self.header
    THEN [ok |-> FALSE, value |-> "header was not specified for SamWriterSpec",
          created |-> {}]
    ELSE CASE PathTypeFromPath(self.output) = "Pipe" ->
                  [ok |-> TRUE, value |-> "Writer", created |-> {}]
           [] PathTypeFromPath(self.output) = "UrlPath" ->
                  [ok |-> FALSE, value |-> "Cannot write directly to a cloud URL",
                   created |-> {}]
           [] OTHER -> HtsFromPath(self.output)

OutputExtensions == {"fq", "gz", "bam", "si"}

OutputPaths ==
    {PipePath}
        \cup {LocalPathIn(dirs, e) : dirs \in {<<>>, <<"out">>},
                                      e \in {Some(x) : x \in OutputExtensions} \cup {None}}
        \cup {UrlPath(prefix, dirs, e) : prefix \in URL_PREFIXES,
                                          dirs \in {<<"bucket">>, <<"bucket", "out">>},
                                          e \in {Some(x) : x \in OutputExtensions} \cup {None}}

\* a command about to open its output: the index, a SAM/BAM/CRAM writer or a
\* FASTQ writer, for any kind of path
InitOpenOutput ==
    /\ IdlePipeline
    /\ pc = "open_output"
    /\ \E output \in OutputPaths,
          operation \in {"write_index", "bam_writer", "fastq_writer"},
          format \in {Some("bam"), None},
          header \in BOOLEAN,
          compression \in {None, Some(0), Some(5)} :
            /\ operation # "bam_writer" => format = None /\ ~header
            /\ operation # "fastq_writer" => compression = None
            /\ request = [NoRequest EXCEPT !.output = output, !.operation = operation,
                                           !.output_format = format, !.header = header,
                                           !.compression = compression]
    /\ response = NoResponse

\* SplitIndex::write(path): the writer, then the serialized index written to it
WriteIndex ==
    /\ pc = "open_output"
    /\ request.operation = "write_index"
    /\ response' = SplitIndexWriter(request.output)
    /\ pc' = "output_done"
    /\ UNCHANGED <<pipeline_vars, loaded_index, serial_vars, lookup, chain_vars,
                   write_record, other, request>>

\* SamWriterSpec::get_bam_writer()
OpenBamWriter ==
    /\ pc = "open_output"
    /\ request.operation = "bam_writer"
    /\ response' = GetBamWriter(request)
    /\ pc' = "output_done"
    /\ UNCHANGED <<pipeline_vars, loaded_index, serial_vars, lookup, chain_vars,
                   write_record, other, request>>

\* get_fastq_writer -> MaybeCompressedWriter::new -> open_file(path, true), up to
\* create_dir_all
OpenFastqWriterDirs ==
    /\ pc = "open_output"
    /\ request.operation = "fastq_writer"
    /\ response' = OpenFileDirs(request.output, TRUE)
    /\ pc' = IF request.output = PipePath THEN "output_done" ELSE "open_file"
    /\ UNCHANGED <<pipeline_vars, loaded_index, serial_vars, lookup, chain_vars,
                   write_record, other, request>>

\* open_file(path, true): the file is opened, created if need be; the writer is
\* compressed or not
OpenFastqWriterFile ==
    /\ pc = "open_file"
    /\ LET opened == OpenFileOpen(request.output, TRUE, response.created)
           compressed == IsCompressed(request.output,
                                      request.compression.some
                                          /\ request.compression.val > 0)
       IN response' = [opened EXCEPT !.value = IF compressed THEN "Compressed"
                                               ELSE "Uncompressed"]
    /\ pc' = "output_done"
    /\ UNCHANGED <<pipeline_vars, loaded_index, serial_vars, lookup, chain_vars,
                   write_record, other, request>>

NextOpenOutput == WriteIndex \/ OpenBamWriter \/ OpenFastqWriterDirs \/ OpenFastqWriterFile

SpecOpenOutput == InitOpenOutput /\ [][NextOpenOutput]_vars

\* ------------------------------ get-chunk for any chunk_index and num_chunks

\* usize::MAX
LargestUsize == UsizeRange - 1

\* --num-chunks: a NonZero<usize>
NumChunksArgs == {1, 2, LargestUsize}

\* --chunk-index: a usize; around num_chunks, and the largest
ChunkIndexArgs(n) == {c \in {0, n - 1, n, n + 1, LargestUsize} : c >= 0 /\ c <= LargestUsize}

\* get-chunk is run once, for chunk chunk_index of num_chunks as the command line
\* gives them, with a reader of its own
StartAnyChunk ==
    /\ pc = "indexed"
    /\ \E n \in NumChunksArgs : \E c \in ChunkIndexArgs(n) :
          /\ num_chunks' = n
          /\ chunk_index' = c
    /\ reader_pos' = HeaderLen
    /\ pc' = "fast_forward"
    /\ UNCHANGED <<source, num_bins, record, split_index, bld, writer, ds,
                   loaded_index, ff, out, chunks>>
    /\ UNCHANGED <<serial_vars, lookup, chain_vars, write_record, other, command_vars>>

InitAnyChunk ==
    /\ Init
    /\ ~writer.present
    /\ Len(source) < MaxReads

NextAnyChunk ==
    \/ BuildFirst
    \/ BuildStep
    \/ BuildFinish
    \/ KeepRaw
    \/ DownsizeBegin
    \/ DownsizeStep
    \/ DownsizeFinish
    \/ StartAnyChunk
    \/ FastForwardSeek
    \/ FastForwardFirst
    \/ FastForwardWalk
    \/ FastForwardWalkDone
    \/ FastForwardInfo
    \/ WriteChunkBegin
    \/ WriteChunkGroupFirst
    \/ WriteChunkGroupRest
    \/ WriteChunkNextGroup
    \/ WriteChunkLastFirst
    \/ WriteChunkLastRest
    \/ WriteChunkReturn

SpecAnyChunk == InitAnyChunk /\ [][NextAnyChunk]_vars

\* ----------------------------------------------------- reference notions

\* 1-based number of the query group (maximal run of adjacent records of one qname)
\* that record i of src belongs to
RECURSIVE GroupOf(_, _)
GroupOf(src, i) ==
    IF i <= 1 THEN 1
    ELSE IF src[i] = src[i - 1] THEN GroupOf(src, i - 1) ELSE GroupOf(src, i - 1) + 1

\* T: the number of query groups of src
NumGroups(src) == IF Len(src) = 0 THEN 0 ELSE GroupOf(src, Len(src))

\* Record i of src is the first of its query group
StartsGroup(src, i) == i = 1 \/ src[i] # src[i - 1]

RECURSIVE Flatten(_)
Flatten(ss) == IF Len(ss) = 0 THEN <<>> ELSE Flatten(SubSeq(ss, 1, Len(ss) - 1)) \o ss[Len(ss)]

\* The records of src whose 0-based group index lies in [lo, hi), in source order
RecordsOfGroups(src, lo, hi) ==
    LET Keep(r) == GroupOf(src, r.idx) - 1 >= lo /\ GroupOf(src, r.idx) - 1 < hi
    IN SelectSeq(SourceRecords(src), Keep)

\* The query groups a sequence of records touches
GroupsIn(src, recs) == {GroupOf(src, recs[i].idx) : i \in 1..Len(recs)}

\* min and ceil(a / b) of the test's expectations
Min(a, b) == IF a <= b THEN a ELSE b

CeilDiv(a, b) == (a + b - 1) \div b

\* every difference of num_queries between neighbouring records lies in [lo, hi]
DeltasWithin(idx, lo, hi) ==
    \A i \in 2..Len(idx) :
        /\ idx[i].num_queries - idx[i - 1].num_queries >= lo
        /\ idx[i].num_queries - idx[i - 1].num_queries <= hi

\* the bytes of f up to and including its first newline (none: the empty sequence)
UpToNewline(f) == SubSeq(f, 1, Position(f, Newline))

\* "split-index 1.0\n"
ExactHeader == ExpectedFront \o VERSION \o <<Newline>>

\* the 8 bytes after the header of f
DeclaredCount(f) == SubSeq(f, Len(ExactHeader) + 1, Len(ExactHeader) + WordLen)

\* f starts with the exact header and is shorter than what it declares: fewer than 8
\* bytes for the record count, or fewer whole records than the count says
ShorterThanDeclared(f) ==
    /\ UpToNewline(f) = ExactHeader
    /\ \/ Len(f) < Len(ExactHeader) + WordLen
       \/ WordLess(ToLeBytes((Len(f) - Len(ExactHeader) - WordLen) \div SplitRecordLen,
                             WordLen),
                   DeclaredCount(f))

StrictlyIncreasingCounts(idx) ==
    \A i \in 2..Len(idx) : /\ idx[i].num_queries > idx[i - 1].num_queries
                           /\ idx[i].num_reads > idx[i - 1].num_reads

\* ------------------------------------------------------------------ claims

\* C1: for any source, any index build produced for it (raw or then downsized) and
\* any num_chunks, the outputs of chunks 0..num_chunks-1 concatenated in chunk order
\* are exactly the source's records, in order, none missing and none twice; no step
\* of the way fails.
C1_ChunksRecapitulateSource ==
    /\ pc # "error"
    /\ pc = "done" => /\ Len(chunks) = num_chunks
                      /\ Flatten(chunks) = SourceRecords(source)

C1_Witness ==
    /\ pc = "done"
    /\ num_chunks >= 2
    /\ Len(source) >= 5
    /\ NumGroups(source) < Len(source)
    /\ ds.num_bins >= 1
    /\ Len(loaded_index) < Len(split_index)
    /\ \A k \in 1..Len(chunks) : Len(chunks[k]) > 0
    /\ Flatten(chunks) = SourceRecords(source)

\* C2: no query group is split across chunks: every chunk holds whole query groups
\* only, and of two non-empty chunks with only empty chunks between them the earlier
\* one's last record and the later one's first record have different qnames.
C2_NoGroupSplit ==
    /\ \A k \in 1..Len(chunks) : \A i \in 1..Len(chunks[k]) : \A j \in 1..Len(source) :
          GroupOf(source, j) = GroupOf(source, chunks[k][i].idx)
              => \E i2 \in 1..Len(chunks[k]) : chunks[k][i2] = Rec(source, j)
    /\ \A k1 \in 1..Len(chunks) : \A k2 \in (k1 + 1)..Len(chunks) :
          (/\ Len(chunks[k1]) > 0
           /\ Len(chunks[k2]) > 0
           /\ \A k \in (k1 + 1)..(k2 - 1) : Len(chunks[k]) = 0)
              => chunks[k1][Len(chunks[k1])].qname # chunks[k2][1].qname

C2_Witness ==
    /\ pc = "done"
    /\ Len(chunks) = 3
    /\ Len(chunks[1]) >= 2
    /\ Len(chunks[2]) >= 2
    /\ chunks[2][1].qname = chunks[2][2].qname
    /\ Len(chunks[3]) > 0
    /\ chunks[1][Len(chunks[1])].qname # chunks[2][1].qname

\* C3: chunk k of num_chunks writes exactly the records of the query groups with
\* 0-based index in [start_q(k), start_q(k+1)), in source order, where
\* start_q(c) = get_chunk_query_start(c, num_chunks).
C3_ChunkCoversItsGroups ==
    \A k \in 1..Len(chunks) :
        chunks[k] = RecordsOfGroups(source,
                                    GetChunkQueryStart(loaded_index, k - 1, num_chunks).val,
                                    GetChunkQueryStart(loaded_index, k, num_chunks).val)

C3_Witness ==
    /\ Len(chunks) >= 2
    /\ num_chunks = 3
    /\ NumGroups(source) = 5
    /\ Len(source) = 6
    /\ Len(chunks[2]) >= 2
    /\ chunks[2][1].idx > 2
    /\ Len(loaded_index) <= 2

\* C4: with T query groups in the source and N chunks, every chunk (the empty ones
\* too) writes a number of query groups between floor(T/N) and ceil(T/N).
C4_ChunkBalance ==
    \A k \in 1..Len(chunks) :
        LET t == NumGroups(source)
            groups == Cardinality(GroupsIn(source, chunks[k]))
        IN /\ groups >= t \div num_chunks
           /\ groups <= (t + num_chunks - 1) \div num_chunks

C4_Witness ==
    /\ pc = "done"
    /\ num_chunks = 3
    /\ NumGroups(source) = 5
    /\ Cardinality(GroupsIn(source, chunks[1])) = 1
    /\ Cardinality(GroupsIn(source, chunks[2])) = 2
    /\ Cardinality(GroupsIn(source, chunks[3])) = 2

\* C5: after build over a source of R records in T query groups the last split
\* record has num_queries = T and num_reads = R, so num_queries() = T and
\* num_reads() = R; over an empty source the index is empty and both are 0.
C5_BuildTotals ==
    pc = "built" =>
        /\ NumQueries(split_index) = NumGroups(source)
        /\ NumReads(split_index) = Len(source)
        /\ Len(source) > 0 =>
              /\ Len(split_index) > 0
              /\ split_index[Len(split_index)].num_queries = NumGroups(source)
              /\ split_index[Len(split_index)].num_reads = Len(source)
        /\ Len(source) = 0 => split_index = <<>>

C5_Witness ==
    /\ pc = "built"
    /\ Len(source) = 6
    /\ NumGroups(source) = 4
    /\ Len(split_index) = 3
    /\ NumQueries(split_index) = 4
    /\ NumReads(split_index) = 6

\* C6: in every index build returns, num_queries and num_reads are strictly
\* increasing from each split record to the next, and the first record has
\* num_queries >= 1.
C6_BuildStrictlyIncreasing ==
    pc = "built" =>
        /\ StrictlyIncreasingCounts(split_index)
        /\ Len(split_index) > 0 => split_index[1].num_queries >= 1

C6_Witness ==
    /\ pc = "built"
    /\ Len(split_index) >= 3
    /\ split_index[3].num_queries >= split_index[2].num_queries + 2
    /\ split_index[2].num_reads >= split_index[1].num_reads + 2

\* C7: in every index build returns, offset[0] is the reader position of the first
\* record of the source, and every later offset[i] is the reader position just before
\* record number num_reads[i-1]+1, whose qname differs from the qname of the record
\* before it: no bin boundary falls inside a query group.
C7_BuildOffsetsOnGroupStarts ==
    pc = "built" =>
        /\ Len(split_index) > 0 => split_index[1].offset = Offset(source, 1)
        /\ \A i \in 2..Len(split_index) :
              LET first == split_index[i - 1].num_reads + 1
              IN /\ first <= Len(source)
                 /\ split_index[i].offset = Offset(source, first)
                 /\ source[first] # source[first - 1]

C7_Witness ==
    /\ pc = "built"
    /\ Len(split_index) >= 3
    /\ split_index[2].num_reads >= split_index[1].num_reads + 2
    /\ split_index[3].offset = Offset(source, split_index[2].num_reads + 1)
    /\ split_index[3].offset > split_index[2].offset + RecLen(1)

\* C8: for any non-empty index with strictly increasing counts and any M >= 1,
\* downsize_reads(M) returns an index whose last record has the num_queries and
\* num_reads of the original's last record, also when it returns early because the
\* nearest original bin of an intermediate target is the original's last bin.
C8_DownsizePreservesTotals ==
    (/\ pc = "indexed"
     /\ ds.num_bins >= 1
     /\ Len(split_index) > 0
     /\ StrictlyIncreasingCounts(split_index))
        => /\ Len(loaded_index) > 0
           /\ loaded_index[Len(loaded_index)].num_queries
                  = split_index[Len(split_index)].num_queries
           /\ loaded_index[Len(loaded_index)].num_reads
                  = split_index[Len(split_index)].num_reads
           /\ NumQueries(loaded_index) = NumQueries(split_index)
           /\ NumReads(loaded_index) = NumReads(split_index)

\* the early return: the loop was left before its last iteration
C8_Witness ==
    /\ pc = "indexed"
    /\ StrictlyIncreasingCounts(split_index)
    /\ Len(split_index) = 3
    /\ ds.num_bins = 3
    /\ ds.bin = 2
    /\ Len(loaded_index) = 2
    /\ loaded_index[2].num_queries = split_index[3].num_queries
    /\ loaded_index[2].num_reads = split_index[3].num_reads

\* C9 as stated: downsize_reads(idx, M) with M >= len(idx), M = len(idx) included,
\* returns an index equal to idx.
C9_Original ==
    (pc = "indexed" /\ ds.num_bins >= 1 /\ ds.num_bins >= Len(split_index))
        => loaded_index = split_index

\* C9 amended: downsize_reads(idx, M) with M > len(idx) returns an index equal to
\* idx (same number of records, same offsets, same counts), for any index, the
\* empty one included: it never returns an error.
C9_DownsizeKeepsSmallIndex ==
    /\ pc # "error"
    /\ (pc = "indexed" /\ ds.num_bins >= 1 /\ ds.num_bins > Len(split_index))
           => loaded_index = split_index

C9_Witness ==
    /\ pc = "indexed"
    /\ ds.num_bins = 3
    /\ Len(split_index) = 2
    /\ split_index[1].num_queries > split_index[2].num_queries
    /\ loaded_index = split_index

\* C10: in the index downsize_reads returns for an index built by build, record 0
\* keeps the original first offset and every later record j has the original offset
\* of the bin following the original bin whose counts record j-1 took; so offset[j]
\* is the position of record number num_reads[j-1]+1 of the source, the first record
\* of a query group.
C10_DownsizeOffsets ==
    (pc = "indexed" /\ ds.num_bins >= 1) =>
        /\ Len(loaded_index) > 0 => loaded_index[1].offset = split_index[1].offset
        /\ \A j \in 2..Len(loaded_index) :
              /\ \E b \in 1..(Len(split_index) - 1) :
                    /\ split_index[b].num_queries = loaded_index[j - 1].num_queries
                    /\ split_index[b].num_reads = loaded_index[j - 1].num_reads
                    /\ loaded_index[j].offset = split_index[b + 1].offset
              /\ loaded_index[j - 1].num_reads + 1 <= Len(source)
              /\ loaded_index[j].offset = Offset(source, loaded_index[j - 1].num_reads + 1)
              /\ StartsGroup(source, loaded_index[j - 1].num_reads + 1)

C10_Witness ==
    /\ pc = "indexed"
    /\ ds.num_bins = 2
    /\ Len(split_index) >= 4
    /\ Len(loaded_index) = 2
    /\ loaded_index[1].num_queries = split_index[2].num_queries
    /\ loaded_index[2].offset = split_index[3].offset
    /\ loaded_index[2].offset # split_index[Len(split_index)].offset

\* C11: for a source with T query groups indexed by build with target N and then
\* downsized with the same N, the downsized index has exactly min(N, T) split
\* records.
C11_DownsizedLength ==
    (pc = "indexed" /\ ds.num_bins = num_bins) =>
        Len(loaded_index) = Min(num_bins, NumGroups(source))

C11_Witness ==
    /\ pc = "indexed"
    /\ ds.num_bins = num_bins
    /\ num_bins = 3
    /\ NumGroups(source) >= 8
    /\ Len(split_index) > 3
    /\ Len(split_index) < NumGroups(source)
    /\ Len(loaded_index) = 3

\* C12: for a source with T >= 1 query groups built with target N, in the raw index
\* every difference num_queries[i] - num_queries[i-1] lies in [1, 2*ceil(T/N)], and
\* in the index then downsized to N every such difference lies in
\* [ceil(T/N) div 2, 2*ceil(T/N)].
C12_BinDeltas ==
    LET mean == CeilDiv(NumGroups(source), num_bins)
    IN /\ (pc = "built" /\ NumGroups(source) >= 1)
             => DeltasWithin(split_index, 1, 2 * mean)
       /\ (pc = "indexed" /\ ds.num_bins = num_bins /\ NumGroups(source) >= 1)
             => DeltasWithin(loaded_index, mean \div 2, 2 * mean)

C12_Witness ==
    /\ pc = "indexed"
    /\ ds.num_bins = num_bins
    /\ num_bins = 2
    /\ NumGroups(source) >= 7
    /\ \E i \in 2..Len(split_index) :
           split_index[i].num_queries - split_index[i - 1].num_queries >= 2
    /\ Len(loaded_index) = 2
    /\ loaded_index[2].num_queries - loaded_index[1].num_queries
           >= CeilDiv(NumGroups(source), num_bins) \div 2

\* C13: the raw index returned by build with target N over a source with T query
\* groups has at least min(N, T) and at most T split records.
C13_RawLength ==
    pc = "built" =>
        /\ Len(split_index) >= Min(num_bins, NumGroups(source))
        /\ Len(split_index) <= NumGroups(source)

C13_Witness ==
    /\ pc = "built"
    /\ num_bins = 3
    /\ NumGroups(source) = 9
    /\ Len(split_index) > 3
    /\ Len(split_index) < 9

\* C14: for every SplitIndex value, the empty index and indices with arbitrary
\* non-monotonic fields included, deserialize(serialize(idx)) = idx: on the bytes
\* serialize returned, deserialize neither fails nor panics and returns idx.
C14_SerializeRoundTrip ==
    (file = Serialize(split_index) /\ pc \notin {"serialize", "stored"}) =>
        /\ pc \notin {"error", "panic"}
        /\ pc = "deserialized" => loaded_index = split_index

C14_Witness ==
    /\ pc = "deserialized"
    /\ file = Serialize(split_index)
    /\ Len(split_index) = 2
    /\ split_index[1].num_queries > split_index[2].num_queries
    /\ split_index[1].offset > 65535
    /\ loaded_index = split_index

\* C15: deserialize returns an error and no index whenever the bytes up to and
\* including the first newline are not exactly "split-index 1.0\n": a missing
\* newline, a wrong or too-short prefix, or any one-byte change to the version
\* string is rejected.
C15_HeaderRejected ==
    (pc \notin {"serialize", "stored", "damaged"} /\ UpToNewline(file) # ExactHeader)
        => pc = "error" /\ loaded_index = <<>>

\* one byte of the version string changed, nothing else
C15_Witness ==
    /\ pc = "error"
    /\ Len(split_index) >= 1
    /\ Len(file) = Len(Serialize(split_index))
    /\ \E i \in (Len(ExpectedFront) + 1)..(Len(ExpectedFront) + Len(VERSION)) :
          /\ file[i] # Serialize(split_index)[i]
          /\ file[i] < 128
          /\ \A j \in 1..Len(file) : j # i => file[j] = Serialize(split_index)[j]

\* C16 as stated: deserialize returns an error when the buffer is shorter than the
\* declared content (fewer than 8 bytes for the record count, or fewer than 24 bytes
\* for any of the declared records); it never returns an index holding fewer records
\* than the declared record count.
C16_Original ==
    /\ ShorterThanDeclared(file) => pc \notin {"deserialized", "panic"}
    /\ pc = "deserialized" => ToLeBytes(Len(loaded_index), WordLen) = len

\* the declared count is too large for with_capacity and no record follows it
C16_Witness ==
    /\ pc = "panic"
    /\ ShorterThanDeclared(file)
    /\ Len(file) = Len(ExactHeader) + WordLen
    /\ loaded_index = <<>>

\* C17 as stated: get_chunk_query_start(c, n) returns floor(c*T/n) for every
\* 0 <= c <= n, where T = num_queries() (so 0 for c = 0 and T for c = n), is
\* non-decreasing in c, computes it with no intermediate value larger than
\* max(T, n*n), and returns an error when c > n.
C17_Original ==
    LET t == NumQueries(loaded_index)
        n == num_chunks
        c == chunk_index
    IN /\ pc \in {"chunk_start_ok", "chunk_start_err", "panic"} =>
             IF c <= n THEN pc = "chunk_start_ok" ELSE pc = "chunk_start_err"
       /\ pc = "chunk_start_ok" =>
             /\ ff.start_num_queries = (c * t) \div n
             /\ c = 0 => ff.start_num_queries = 0
             /\ c = n => ff.start_num_queries = t
             /\ \A b \in 0..c :
                   GetChunkQueryStart(loaded_index, b, n).val <= ff.start_num_queries
             /\ c * (t \div n) <= Max(t, n * n)
             /\ c * (t % n) <= Max(t, n * n)

\* the product chunk_index * (T mod num_chunks) does not fit usize
C17_Witness ==
    /\ pc = "chunk_start_ok"
    /\ chunk_index = num_chunks
    /\ ChunkQueryStartOverflows(loaded_index, chunk_index, num_chunks)
    /\ ff.start_num_queries # NumQueries(loaded_index)

\* C18: get_record_for_num_queries(n) returns the SplitRange of the lowest-indexed
\* split record whose num_queries >= n, with num_previous_queries and
\* num_previous_reads taken from the preceding record (both 0 for the first record),
\* and returns None when n exceeds the last record's num_queries or the index is
\* empty.
C18_LookupLowestRecord ==
    pc = "looked_up" =>
        LET idx == loaded_index
            n == ff.start_num_queries
            found == {i \in 1..Len(idx) : idx[i].num_queries >= n}
        IN /\ (Len(idx) = 0 \/ n > idx[Len(idx)].num_queries) => ~lookup.some
           /\ found = {} => ~lookup.some
           /\ found # {} =>
                 LET i == CHOOSE j \in found : \A k \in found : j <= k
                 IN /\ lookup.some
                    /\ lookup.offset = idx[i].offset
                    /\ lookup.num_end_queries = idx[i].num_queries
                    /\ lookup.num_end_reads = idx[i].num_reads
                    /\ lookup.num_previous_queries
                          = IF i = 1 THEN 0 ELSE idx[i - 1].num_queries
                    /\ lookup.num_previous_reads
                          = IF i = 1 THEN 0 ELSE idx[i - 1].num_reads

\* n is the count of a record in the middle: that record, not the one after it
C18_Witness ==
    /\ pc = "looked_up"
    /\ Len(loaded_index) = 3
    /\ ff.start_num_queries = loaded_index[2].num_queries
    /\ lookup.some
    /\ lookup.offset = loaded_index[2].offset
    /\ lookup.num_previous_reads = loaded_index[1].num_reads
    /\ lookup.num_previous_reads > loaded_index[1].num_queries

\* C19: build over a source with 0 records returns Ok with an empty index (no
\* error); downsize_reads of that index returns an empty index; and fast_forward
\* against it returns an empty chunk (None, nothing written, no error) for every
\* chunk_index < num_chunks.
C19_EmptySource ==
    Len(source) = 0 =>
        /\ pc \in {"build", "built", "indexed", "fast_forward", "chunk_done", "done"}
        /\ split_index = <<>>
        /\ loaded_index = <<>>
        /\ ff = NoFastForward
        /\ out = <<>>
        /\ \A k \in 1..Len(chunks) : chunks[k] = <<>>

C19_Witness ==
    /\ Len(source) = 0
    /\ pc = "done"
    /\ ds.num_bins = 2
    /\ num_chunks = 3
    /\ Len(chunks) = 3
    /\ chunks[3] = <<>>

\* C20: when a source with T query groups is built with target N >= T, every query
\* group starts its own bin (the index has exactly T records and num_queries[i] = i+1
\* for all i, counted from 0), and downsizing that index to N returns it unchanged,
\* including when N = T.
C20_OneGroupPerBin ==
    num_bins >= NumGroups(source) =>
        /\ pc \in {"built", "downsize_loop", "indexed"} =>
              /\ Len(split_index) = NumGroups(source)
              /\ \A i \in 1..Len(split_index) :
                    LET first == (IF i = 1 THEN 0 ELSE split_index[i - 1].num_reads) + 1
                    IN /\ split_index[i].num_queries = i
                       /\ StartsGroup(source, first)
                       /\ GroupOf(source, first) = i
                       /\ split_index[i].offset = Offset(source, first)
        /\ (pc = "indexed" /\ ds.num_bins = num_bins) => loaded_index = split_index

C20_Witness ==
    /\ pc = "indexed"
    /\ num_bins = 3
    /\ NumGroups(source) = 3
    /\ Len(source) >= 5
    /\ ds.num_bins = 3
    /\ ds.bin = 3
    /\ Len(split_index) = 3
    /\ loaded_index = split_index

\* ------------------------------------------------------------------ C21
\* C21: on the chain reader, from any state the calls can reach and for every
\* p >= 0 (inside the front, exactly at the front's length, or inside the
\* back), seek(Start(p)) immediately followed by seek(Current(0)) returns p,
\* without a panic and without wrapping.
C21_StartThenCurrent ==
    (trace.call = "current" /\ trace.arg = 0 /\ trace.prev_start >= 0)
        => /\ trace.ret = trace.prev_start
           /\ pc = "chain"
           /\ ~trace.wrapped

\* seek(Start(len(front))) then seek(Current(0)) on a chain whose two streams
\* both started at a non-zero position
C21_Witness ==
    /\ trace.call = "current" /\ trace.arg = 0
    /\ trace.prev_start = chain.front_len
    /\ chain.front_len > 0
    /\ chain.initial_front_pos > 0
    /\ chain.initial_back_pos > 0
    /\ trace.ret = chain.front_len

\* ------------------------------------------------------------------ C22
\* what the chain stands for: the front's bytes from its initial position to
\* its end, then the back's bytes from its initial position to its end
Full(c) ==
    FrontBytes(c.initial_front_pos, c.front_end - c.initial_front_pos)
        \o BackBytes(c.initial_back_pos, c.back_end - c.initial_back_pos)

\* the bytes read to the end of the chain right after a seek(Start(0))
C22_AfterRewind ==
    (trace.seek = "start" /\ trace.origin = 0 /\ trace.eof) => trace.bytes = Full(chain)

\* C22: for a chain built from any front and back with independent, possibly
\* non-zero initial positions, the bytes read to the end directly after
\* construction and the bytes read to the end after a seek(Start(0)) are
\* the same: the front's bytes from its initial position on, then the back's
\* bytes from its initial position on.
C22_Original ==
    /\ (trace.seek = "new" /\ trace.eof) => trace.bytes = Full(chain)
    /\ C22_AfterRewind

\* a front of 2 bytes at position 1, read to the end right after construction:
\* the front's last byte never came
C22_Witness ==
    /\ trace.seek = "new" /\ trace.eof
    /\ chain.front_end = 2 /\ chain.initial_front_pos = 1
    /\ chain.back_end = 2 /\ chain.initial_back_pos = 1
    /\ trace.bytes = BackBytes(1, 1)
    /\ Full(chain) = FrontBytes(1, 1) \o BackBytes(1, 1)

\* ------------------------------------------------------------------ C23
\* the bytes of s from offset p (0-based) on
Suffix(s, p) == SubSeq(s, p + 1, Len(s))

\* the bytes read since the last seek are the bytes of the chain that follow
\* the position the seek returned, and at the end of the chain all of them
ReadsContinueFromOrigin ==
    /\ trace.bytes = SubSeq(Full(chain), trace.origin + 1, trace.origin + Len(trace.bytes))
    /\ trace.eof => trace.bytes = Suffix(Full(chain), trace.origin)

\* C23: after seek(Start(p)), for any p and whatever the chain's state before,
\* the reads return the bytes that follow logical offset p of (front from its
\* initial position) ++ (back from its initial position), and reading to the
\* end returns exactly that suffix: no byte is skipped or repeated at the
\* junction, whatever the buffer sizes of the reads.
C23_ReadsAfterSeekStart ==
    trace.seek = "start" => ReadsContinueFromOrigin

\* a seek(Start(p)) into the front made when the back had been read from,
\* then reads to the end that cross the junction
C23_Witness ==
    /\ trace.seek = "start" /\ trace.eof
    /\ trace.origin < chain.front_len
    /\ chain.initial_front_pos > 0 /\ chain.initial_back_pos > 0
    /\ chain.back_end > chain.initial_back_pos
    /\ trace.bytes = Suffix(Full(chain), trace.origin)
    /\ Len(trace.bytes) >= 2

\* ------------------------------------------------------------------ C24
\* the length of the chain: len(front) + (end of back - initial_back_pos)
ChainLength(c) == c.front_len + (c.back_end - c.initial_back_pos)

\* C24: seek(Current(0)) returns the logical position and changes no state;
\* seek(Current(n)) with a target >= 0 moves to the logical position cur + n;
\* seek(End(n)) moves to L + n, L being len(front) + (end of back -
\* initial_back_pos); each returns the new logical position and the reads that
\* follow continue from it, also when the target lies inside the front.
C24_RelativeSeeks ==
    /\ (trace.call = "current" /\ trace.arg = 0)
          => trace.unchanged /\ trace.ret = trace.before
    /\ (trace.call = "current" /\ trace.before + trace.arg >= 0 /\ pc # "panic")
          => trace.ret = trace.before + trace.arg /\ ~trace.wrapped
    /\ (trace.call = "end" /\ ChainLength(chain) + trace.arg >= 0 /\ pc # "panic")
          => trace.ret = ChainLength(chain) + trace.arg /\ ~trace.wrapped
    /\ (trace.seek \in {"current", "end"} /\ ~trace.wrapped) => ReadsContinueFromOrigin

\* a seek(End(n)) that landed inside the front, followed by reads to the end
C24_Witness ==
    /\ trace.seek = "end" /\ trace.eof
    /\ trace.origin < chain.front_len
    /\ chain.initial_front_pos > 0 /\ chain.initial_back_pos > 0
    /\ chain.back_end > chain.initial_back_pos
    /\ Len(trace.bytes) = ChainLength(chain) - trace.origin

\* ------------------------------------------------------------------ C25
\* C25: seek and read on the chain fail only when an operation of the front or
\* of the back fails: for every seek request (Start, Current, End with any
\* offset, one resolving before logical position 0 included) the chain never
\* panics and never wraps an unsigned subtraction around.  The streams of the
\* model never fail, so every call returns Ok with nothing wrapped.
C25_Original ==
    /\ pc # "panic"
    /\ pc # "wrapped"

\* seek(Current(-1)) on a chain at logical position 0: the subtraction
\* stream_position - 1 leaves the range of u64
C25_Witness ==
    /\ pc = "panic"
    /\ trace.call = "current" /\ trace.arg = -1 /\ trace.before = 0
    /\ chain.front_len > 0 /\ ~chain.past_front

\* ------------------------------------------------------------------ C26
\* the records of the chunk being extracted: those of the query groups with
\* 0-based index in [start_q(chunk_index), start_q(chunk_index + 1))
ChunkRecords ==
    RecordsOfGroups(source,
                    GetChunkQueryStart(loaded_index, chunk_index, num_chunks).val,
                    GetChunkQueryStart(loaded_index, chunk_index + 1, num_chunks).val)

\* what write_chunk hands to the writer for the chunk: the chunk's records
C26_WriteChunkWrites ==
    pc = "chunk_done" => out = ChunkRecords

\* translate_and_write_chunk writes as many records as write_chunk, in the same
\* order, with the same name, sequence and qualities
C26_SameButSeparator ==
    pc = "chunk_translated" =>
        /\ Len(out) = Len(ChunkRecords)
        /\ \A i \in 1..Len(out) :
              LET written == FastqWrite(FastqFields(ChunkRecords[i]))
              IN out[i][1] = written[1] /\ out[i][2] = written[2] /\ out[i][4] = written[4]

\* C26: for any chunk, translate_and_write_chunk into a writer of the reader's
\* record kind (FASTQ) produces the output of write_chunk: the same number of
\* records, in the same order, each one identical in every emitted field (name,
\* sequence, separator and qualities).
C26_Original ==
    pc = "chunk_translated" =>
        out = [i \in 1..Len(ChunkRecords) |-> FastqWrite(FastqFields(ChunkRecords[i]))]

\* a chunk of two records written by translate_and_write_chunk: the separator
\* line of each is empty, where write_chunk writes "+"
C26_Witness ==
    /\ pc = "chunk_translated"
    /\ Len(out) = 2
    /\ Len(ChunkRecords) = 2
    /\ \A i \in 1..2 : /\ out[i][3] = <<>>
                       /\ FastqWrite(FastqFields(ChunkRecords[i]))[3] = <<"+">>
                       /\ out[i][1] = ChunkRecords[i].qname

\* ------------------------------------------------------------------ C27
\* C27: get-chunk chooses the output record type with this priority: the
\* record type of the output path's extension if it is a recognised one, else
\* the --output-format flag if given, else the input's record type.
C27_Original ==
    (pc = "output_type_done" /\ FromPath(request.input).some) =>
        /\ response.ok
        /\ response.value =
              IF FromPath(request.output).some
              THEN FromPath(request.output).val
              ELSE IF request.output_format.some
                   THEN FromExtension(request.output_format).val
                   ELSE FromPath(request.input).val

\* get-chunk --input reads.fastq --output reads.bam: the output type is FASTQ
C27_Witness ==
    /\ pc = "output_type_done"
    /\ request.input.extension = Some("fastq")
    /\ request.output.extension = Some("bam")
    /\ request.output_format = None
    /\ response.ok
    /\ response.value = "Fastq"

\* the record type get-chunk writes is the input's, whatever the output path
\* and the flag
C27_AlwaysInputType ==
    (pc = "output_type_done" /\ FromPath(request.input).some) =>
        response.ok /\ response.value = FromPath(request.input).val

\* ------------------------------------------------------------------ C28
\* C28: if the reader reports the end of the file at any read fast_forward or
\* write_chunk performs, the operation returns a "file truncated" error; it
\* never returns Ok after having seen the end of the file.  num_reads counts
\* the records before the reader's position, so past ff_first (the seek made,
\* no read yet) a num_reads above the number of records of the source tells
\* that a read met the end of the file.
C28_EofIsFileTruncated ==
    /\ (pc # "ff_first" /\ ff.num_reads > Len(source))
          => /\ pc = "error"
             /\ ~response.ok
             /\ response.value = "file truncated."
    /\ (pc = "error" /\ response.value = "file truncated.")
          => ReadInto(source, reader_pos).kind = "eof"

\* write_chunk has written records of the chunk when its next read meets the end
\* of the file
C28_Witness ==
    /\ pc = "error"
    /\ response.value = "file truncated."
    /\ ~response.ok
    /\ Len(out) >= 2
    /\ ff.num_reads = Len(source) + 1
    /\ reader_pos = Offset(source, Len(source) + 1)
    /\ Len(chunks) >= 1

\* ------------------------------------------------------------------ C29
\* C29: every write operation given a URL path (s3, gcs, ftp, http, https) is
\* rejected with an error and creates nothing: writing the split index,
\* opening the SAM/BAM/CRAM output writer and opening the FASTQ output writer.
C29_Original ==
    (request.output.scheme \in URL_PREFIXES /\ pc \in {"open_file", "output_done"})
        => ~response.ok /\ response.created = {}

\* the index and the SAM/BAM/CRAM writer do refuse a URL and create nothing
C29_IndexAndBamRejectUrls ==
    (/\ request.output.scheme \in URL_PREFIXES
     /\ pc = "output_done"
     /\ request.operation \in {"write_index", "bam_writer"})
        => ~response.ok /\ response.created = {}

\* the FASTQ writer opened for s3://bucket/reads.fq: the directories s3: and
\* s3:/bucket and the file s3:/bucket/reads.fq were made below the working
\* directory, and the writer is returned
C29_Witness ==
    /\ pc = "output_done"
    /\ request.operation = "fastq_writer"
    /\ request.output = UrlPath("s3://", <<"bucket">>, Some("fq"))
    /\ response.ok
    /\ response.created =
          {<<"s3:">>, <<"s3:", "bucket">>,
           <<"s3:", "bucket", [name |-> "reads", extension |-> Some("fq")]>>}

\* ------------------------------------------------------------------ C30
\* the records chunk c of num_chunks holds, as an extractor run alone writes them
RecordsOfChunk(c) ==
    RecordsOfGroups(source,
                    GetChunkQueryStart(loaded_index, c, num_chunks).val,
                    GetChunkQueryStart(loaded_index, c + 1, num_chunks).val)

\* C30: extractors for different chunks of the same source and index, each with
\* its own reader cursor, record buffer and sink, may have their seek, read and
\* write steps interleaved in any order: no extractor fails, and each has
\* written, when it is done, exactly what it writes when run alone.
C30_InterleavedExtractors ==
    /\ pc # "error"
    /\ other.pc # "error"
    /\ pc = "chunk_done" => out = RecordsOfChunk(chunk_index)
    /\ other.pc = "chunk_done" => other.out = RecordsOfChunk(other.chunk_index)

\* one extractor is done with its chunk of two records or more, having run
\* while the other one, set aside, had written a part of its chunk only
C30_Witness ==
    /\ pc = "chunk_done"
    /\ Len(out) >= 2
    /\ out = RecordsOfChunk(chunk_index)
    /\ other.pc = "wc_inner"
    /\ Len(other.out) >= 1
    /\ Len(other.out) < Len(RecordsOfChunk(other.chunk_index))
    /\ other.chunk_index < chunk_index

\* ------------------------------------------------------------------ C31
\* the number of query groups bin i (1-based) of idx holds
GroupsOfBin(idx, i) ==
    idx[i].num_queries - (IF i = 1 THEN 0 ELSE idx[i - 1].num_queries)

\* the width build gives bin i: 1 for the first bin, then max(1, q div N), q being
\* the cumulative num_queries of the bin before
BinWidth(idx, i, n) == IF i = 1 THEN 1 ELSE Max(1, idx[i - 1].num_queries \div n)

\* build's loop has just pushed a bin and goes on
BinClosed ==
    /\ pc = "build_loop"
    /\ pc' = "build_loop"
    /\ Len(split_index') = Len(split_index) + 1

\* a bin is closed on a record with a new qname, its count being the threshold,
\* and the threshold is then raised by max(1, q div N)
ClosesAtThreshold ==
    BinClosed =>
        /\ record'.qname # bld.last_query_name
        /\ bld.split_record.num_queries = bld.next_query_bin
        /\ split_index' = Append(split_index, bld.split_record)
        /\ bld'.next_query_bin
               = bld.next_query_bin + Max(1, bld.split_record.num_queries \div num_bins)
        /\ bld'.split_record.num_queries = bld.split_record.num_queries + 1

\* the open bin never exceeds the threshold; the bins already pushed have their
\* full width; the last bin of the returned index has at most its width
WithinThreshold ==
    /\ pc = "build_loop" =>
          /\ bld.split_record.num_queries <= bld.next_query_bin
          /\ \A i \in 1..Len(split_index) :
                GroupsOfBin(split_index, i) = BinWidth(split_index, i, num_bins)
    /\ pc = "built" =>
          /\ \A i \in 1..(Len(split_index) - 1) :
                GroupsOfBin(split_index, i) = BinWidth(split_index, i, num_bins)
          /\ Len(split_index) > 0 =>
                /\ GroupsOfBin(split_index, Len(split_index)) >= 1
                /\ GroupsOfBin(split_index, Len(split_index))
                       <= BinWidth(split_index, Len(split_index), num_bins)
                /\ split_index[1].num_queries = 1

\* C31: during build cur.num_queries <= next_query_bin at every step; a bin is
\* closed only when a record with a new qname arrives while cur.num_queries =
\* next_query_bin, and next_query_bin is then raised by max(1, q div N), q the
\* cumulative num_queries of the bin just closed.  So bin 0 holds exactly 1 query
\* group, every non-final bin i >= 1 exactly max(1, num_queries[i-1] div N), and
\* the final bin at most that many.
C31_BinsCloseAtThreshold == []WithinThreshold /\ [][ClosesAtThreshold]_vars

\* a built index of four bins for N = 1: widths 1, 1, 2, and a final bin that is
\* not full
C31_Witness ==
    /\ pc = "built"
    /\ num_bins = 1
    /\ Len(split_index) = 4
    /\ GroupsOfBin(split_index, 3) = 2
    /\ GroupsOfBin(split_index, 4) < BinWidth(split_index, 4, num_bins)

\* ------------------------------------------------------------------ C32
\* downsize_reads runs one iteration of its loop, for the bin ds.bin
DownsizeIterates ==
    /\ pc = "downsize_loop"
    /\ ds.bin < ds.num_bins
    /\ pc' \in {"downsize_loop", "indexed"}

\* C32 as stated: for each intermediate bin k in [1, M), downsize_reads uses the
\* target q_k = ceil(k * total_queries / M).
C32_Original ==
    [][DownsizeIterates =>
           ds'.target_num_queries
               = CeilDiv(ds.bin * NumQueries(split_index), ds.num_bins)]_vars

\* C32 amended: for each intermediate bin k in [1, M), downsize_reads uses the
\* target q_k = floor(k * total_queries / M), which get_chunk_query_start(k, M)
\* computes.
C32_TargetIsFloor ==
    [][DownsizeIterates =>
           ds'.target_num_queries
               = (ds.bin * NumQueries(split_index)) \div ds.num_bins]_vars

\* the second bin of three over seven query groups: the target is 4 and not 5
C32_Witness ==
    /\ pc = "downsize_loop"
    /\ ds.num_bins = 3
    /\ ds.bin = 3
    /\ Len(split_index) >= 4
    /\ NumQueries(split_index) = 7
    /\ ds.target_num_queries = 4

\* ------------------------------------------------------------------ C33
Distance(a, b) == IF a >= b THEN a - b ELSE b - a

\* record number i (0-based) of idx is the nearest to target of all its records,
\* and the first of those that are equally near
NearestOfAll(idx, i, target) ==
    /\ i >= 0
    /\ i < Len(idx)
    /\ \A j \in 0..(Len(idx) - 1) :
          \/ Distance(idx[j + 1].num_queries, target)
                 > Distance(idx[i + 1].num_queries, target)
          \/ /\ Distance(idx[j + 1].num_queries, target)
                    = Distance(idx[i + 1].num_queries, target)
             /\ j >= i

\* the search of line 284 for the bin about to be treated returns an index of the
\* original index, and neither subtraction of lines 290-291 goes below zero
SubtractionsFit ==
    (pc = "downsize_loop" /\ ds.bin < ds.num_bins) =>
        LET target == TargetNumQueries(split_index, ds.bin, ds.num_bins)
            index == BisectLeft(split_index, target)
        IN /\ index < Len(split_index)
           /\ index > 0 => /\ target >= split_index[index].num_queries
                           /\ split_index[index + 1].num_queries >= target

SelectsNearest ==
    DownsizeIterates =>
        NearestOfAll(split_index, ds'.index, ds'.target_num_queries)

\* C33: for each target q_k downsize_reads selects, among all original split
\* records, the one whose num_queries is nearest to q_k, the lower-indexed one on a
\* tie; the subtraction that compares the two candidates never underflows, and the
\* selected index is always within the original index.
C33_SelectsNearest == []SubtractionsFit /\ [][SelectsNearest]_vars

\* a tie: the target 3 lies between the counts 2 and 4 of two neighbours, and the
\* lower one is taken
C33_Witness ==
    /\ pc = "downsize_loop"
    /\ ds.bin > 1
    /\ ds.index > 0
    /\ ds.target_num_queries - split_index[ds.index + 1].num_queries = 1
    /\ split_index[ds.index + 2].num_queries - ds.target_num_queries = 1

\* ------------------------------------------------------------------ C34
\* an index as build makes them: counts that grow from record to record, from one
\* query group at least
ValidIndex(idx) ==
    /\ StrictlyIncreasingCounts(idx)
    /\ Len(idx) > 0 => idx[1].num_queries >= 1

\* the counts of record r are those of a record of idx
TakenFrom(idx, r) ==
    \E b \in 1..Len(idx) : /\ idx[b].num_queries = r.num_queries
                           /\ idx[b].num_reads = r.num_reads

\* an iteration whose nearest index is not after the one chosen before adds
\* nothing and goes on with the next bin
SkipsDuplicate ==
    (/\ DownsizeIterates
     /\ ValidIndex(split_index)
     /\ ds.last_index # -1
     /\ ds'.index <= ds.last_index)
        => /\ pc' = "downsize_loop"
           /\ ds'.downsized = ds.downsized
           /\ ds'.last_index = ds.last_index
           /\ ds'.last_offset = ds.last_offset
           /\ ds'.bin = ds.bin + 1

\* what downsize_reads(M) returns for a valid index of M records or more
DownsizedIsSparse ==
    (/\ pc = "indexed"
     /\ ds.num_bins >= 1
     /\ ds.num_bins <= Len(split_index)
     /\ ValidIndex(split_index))
        => /\ Len(loaded_index) >= 1
           /\ Len(loaded_index) <= ds.num_bins
           /\ \A j \in 1..Len(loaded_index) : TakenFrom(split_index, loaded_index[j])
           /\ \A j, k \in 1..Len(loaded_index) :
                 (/\ loaded_index[j].num_queries = loaded_index[k].num_queries
                  /\ loaded_index[j].num_reads = loaded_index[k].num_reads) => j = k
           /\ StrictlyIncreasingCounts(loaded_index)

\* C34: when the nearest original index for a target is not greater than the one
\* chosen before, downsize_reads adds no record for that target and continues; so
\* for any valid index and any M <= len the returned index has between 1 and M
\* records, never repeats an original bin, and has strictly increasing num_queries
\* and num_reads.
C34_SkipsDuplicates == []DownsizedIsSparse /\ [][SkipsDuplicate]_vars

\* three bins asked of the counts 1, 2, 6: the targets 2 and 4 both find the
\* second record, and the result has two records
C34_Witness ==
    /\ pc = "indexed"
    /\ ds.num_bins = 3
    /\ Len(split_index) = 3
    /\ ValidIndex(split_index)
    /\ split_index[1].num_queries = 1
    /\ split_index[2].num_queries = 2
    /\ split_index[3].num_queries = 6
    /\ Len(loaded_index) = 2
    /\ loaded_index[1].num_queries = 2
    /\ loaded_index[2].num_queries = 6

\* ------------------------------------------------------------------ C35
\* start_q of the chunk being extracted, as fast_forward first computes it
ChunkStart == GetChunkQueryStart(loaded_index, chunk_index, num_chunks).val

\* start_q is at a bin boundary: 0, or the cumulative num_queries of a bin
AtBinBoundary(idx, start) ==
    \/ start = 0
    \/ \E i \in 1..Len(idx) : idx[i].num_queries = start

\* the 1-based number of the bin of idx that begins at the boundary start
BinBeginningAt(idx, start) ==
    IF start = 0 THEN 1
    ELSE 1 + CHOOSE i \in 1..Len(idx) : idx[i].num_queries = start

\* the reads fast_forward has made so far: num_reads counts on from the reads
\* before the bin it sought
ReadsMade ==
    ff.num_reads - GetRecordForNumQueries(loaded_index, ChunkStart).num_previous_reads

\* fast_forward has sought, or has returned its FastForwardInfo
Sought35 == pc \in {"ff_first", "ff_walk", "ff_hard_stop", "write_chunk"}

\* C35 as stated: when the chunk's start_q coincides with a bin boundary (it is 0
\* or the cumulative num_queries at the end of some bin), fast_forward seeks to the
\* offset of the bin that begins at that boundary and reads exactly one record
\* before returning, that record being the first record of the chunk.
C35_Original ==
    (Sought35 /\ AtBinBoundary(loaded_index, ChunkStart)) =>
        /\ BinBeginningAt(loaded_index, ChunkStart) <= Len(loaded_index)
        /\ pc = "ff_first" =>
              reader_pos = loaded_index[BinBeginningAt(loaded_index, ChunkStart)].offset
        /\ pc = "write_chunk" =>
              /\ ReadsMade = 1
              /\ record = RecordsOfChunk(chunk_index)[1]

\* the chunk starts where the second bin of the index starts, and fast_forward
\* has sought
C35_Witness ==
    /\ pc = "ff_first"
    /\ ChunkStart > 0
    /\ Len(loaded_index) >= 2
    /\ loaded_index[1].num_queries = ChunkStart
    /\ loaded_index[1].num_reads >= 2

\* what the code does at a bin boundary: for start_q = 0 it is what C35 says; for
\* a later boundary the seek goes to the bin that ends there, whose records are
\* all read, and then the chunk's first one
C35_SeeksBinEndingAtBoundary ==
    (Sought35 /\ AtBinBoundary(loaded_index, ChunkStart)) =>
        /\ BinBeginningAt(loaded_index, ChunkStart) <= Len(loaded_index)
        /\ pc = "ff_first" =>
              reader_pos
                  = IF ChunkStart = 0 THEN loaded_index[1].offset
                    ELSE loaded_index[BinBeginningAt(loaded_index, ChunkStart) - 1].offset
        /\ pc = "ff_first" => (ff.walk <=> ChunkStart > 0)
        /\ pc = "write_chunk" =>
              /\ ReadsMade
                     = IF ChunkStart = 0 THEN 1
                       ELSE LET b == BinBeginningAt(loaded_index, ChunkStart) - 1
                            IN loaded_index[b].num_reads
                                   - (IF b = 1 THEN 0 ELSE loaded_index[b - 1].num_reads)
                                   + 1
              /\ record = RecordsOfChunk(chunk_index)[1]

\* ------------------------------------------------------------------ C36
\* write_chunk is running, or has just returned
InWriteChunk == pc \in {"write_chunk", "wc_outer", "wc_inner", "wc_last", "chunk_done"}

\* the cumulative num_reads at the end of the bin that holds the chunk's last
\* query group, the group number stop_q
EndOfLastGroupsBin ==
    LET stop == GetChunkQueryStart(loaded_index, chunk_index + 1, num_chunks).val
        b == CHOOSE i \in 1..Len(loaded_index) :
                 /\ loaded_index[i].num_queries >= stop
                 /\ \A j \in 1..(i - 1) : loaded_index[j].num_queries < stop
    IN loaded_index[b].num_reads

\* while write_chunk runs on a chunk that is not empty: the record in hand is the
\* last one read, record number num_reads of the source, and that number is not
\* beyond the hard stop, which is not beyond the source; no read has failed
WithinHardStop ==
    /\ pc # "error"
    /\ (InWriteChunk /\ ff.hard_stop_num_reads > 0) =>
          /\ ff.hard_stop_num_reads = EndOfLastGroupsBin
          /\ ff.num_reads <= ff.hard_stop_num_reads
          /\ ff.hard_stop_num_reads <= Len(source)
          /\ record = Rec(source, ff.num_reads)
          /\ reader_pos = Offset(source, ff.num_reads + 1)

\* every pass of the last loop that stays in the loop has read one more record
LastLoopAdvances ==
    (pc = "wc_last" /\ pc' = "wc_last") => ff'.num_reads = ff.num_reads + 1

\* C36: with an index that matches the source, num_reads <= hard_stop_num_reads
\* holds throughout write_chunk: it never reads a record whose 1-based position in
\* the source exceeds hard_stop_num_reads (the cumulative num_reads at the end of
\* the bin containing the chunk's last query group), so the last chunk never
\* attempts a read after the final record of an intact source, and the final loop
\* terminates: each of its passes raises num_reads, which the hard stop bounds.
C36_ReadsWithinHardStop == []WithinHardStop /\ [][LastLoopAdvances]_vars

\* the last chunk has stopped at the hard stop, the last record of the source,
\* after two passes or more of the last loop
C36_Witness ==
    /\ pc = "chunk_done"
    /\ chunk_index = num_chunks - 1
    /\ num_chunks >= 2
    /\ ff.num_reads = ff.hard_stop_num_reads
    /\ ff.num_reads = Len(source)
    /\ Len(out) >= 3
    /\ out[Len(out)].qname = out[Len(out) - 2].qname
    /\ out[Len(out)].idx = Len(source)

\* ------------------------------------------------------------------ C37
\* the first n records of src
FirstRecords(src, n) == SubSeq(SourceRecords(src), 1, n)

\* what the passthrough writer holds at each point of build: nothing before the
\* first read, then the records read so far, the one in hand being the last, and
\* the whole source when build has returned
WriterFollowsReader ==
    writer.present =>
        /\ pc = "build" => writer.records = <<>>
        /\ pc = "build_loop" =>
              /\ record.idx >= 1
              /\ reader_pos = Offset(source, record.idx + 1)
              /\ writer.records = FirstRecords(source, record.idx)
        /\ pc = "built" => writer.records = SourceRecords(source)

\* a step of build that reads a record writes that record, once, in the same pass
WritesWhatItReads ==
    (/\ pc \in {"build", "build_loop"}
     /\ writer.present
     /\ reader_pos' # reader_pos)
        => writer'.records = Append(writer.records, record')

\* C37: when build is given a passthrough writer, every record read from the
\* reader is written to the writer exactly once, in read order, and before the
\* next record is read; when build returns Ok the writer has received exactly the
\* source record sequence.
C37_PassThroughCopiesSource == []WriterFollowsReader /\ [][WritesWhatItReads]_vars

\* build has returned for a source of five records or more with a group of two
\* records, and the writer holds them all
C37_Witness ==
    /\ pc = "built"
    /\ writer.present
    /\ Len(source) >= 5
    /\ NumGroups(source) < Len(source)
    /\ Len(split_index) >= 2
    /\ writer.records = SourceRecords(source)

\* ------------------------------------------------------------------ C38
\* stop_q of the chunk being extracted
ChunkStop == GetChunkQueryStart(loaded_index, chunk_index + 1, num_chunks).val

\* fast_forward is called for a chunk with start_q >= stop_q
CalledForEmptyChunk ==
    /\ pc = "fast_forward"
    /\ ChunkStart >= ChunkStop

\* it returns at once: the reader is where it was, no record was read, nothing was
\* written
ReturnsEmpty ==
    (CalledForEmptyChunk /\ pc' # pc) =>
        /\ pc' = "chunk_done"
        /\ reader_pos' = reader_pos
        /\ record' = record
        /\ ff' = ff
        /\ out' = <<>>

\* the chunks, 1-based, that hold group g
ChunksWith(g) == {k \in 1..Len(chunks) : g \in GroupsIn(source, chunks[k])}

\* the chunks with start_q >= stop_q are empty, and when all chunks are done every
\* query group is in exactly one chunk, whole
EmptyChunksLoseNothing ==
    /\ pc # "error"
    /\ \A k \in 1..Len(chunks) :
          GetChunkQueryStart(loaded_index, k - 1, num_chunks).val
              >= GetChunkQueryStart(loaded_index, k, num_chunks).val
          => chunks[k] = <<>>
    /\ pc = "done" =>
          /\ \A g \in 1..NumGroups(source) :
                /\ Cardinality(ChunksWith(g)) = 1
                /\ \A k \in ChunksWith(g) :
                      RecordsOfGroups(source, g - 1, g)
                          = SelectSeq(chunks[k],
                                      LAMBDA r : GroupOf(source, r.idx) = g)
          /\ Flatten(chunks) = SourceRecords(source)

\* C38: when start_q >= stop_q for a chunk (more chunks than query groups),
\* fast_forward returns the empty result without seeking or reading the reader,
\* and nothing is written for that chunk; the chunks that are not empty together
\* still cover every query group exactly once.
C38_EmptyChunks == []EmptyChunksLoseNothing /\ [][ReturnsEmpty]_vars

\* three chunks of a source of two query groups: the first chunk is empty, the
\* other two hold a group each
C38_Witness ==
    /\ pc = "done"
    /\ num_chunks = 3
    /\ NumGroups(source) = 2
    /\ Len(source) >= 3
    /\ chunks[1] = <<>>
    /\ Len(chunks[2]) >= 1
    /\ Len(chunks[3]) >= 1
    /\ Len(chunks[2]) + Len(chunks[3]) = Len(source)

\* ------------------------------------------------------------------ C39
\* C39: on every successful non-empty return of fast_forward, in the walk-forward
\* branch and in the bin-aligned branch, the record in hand is the first record
\* of the query group with 0-based index start_q, the returned num_queries is
\* start_q + 1 (groups started, not groups completed), and the returned num_reads
\* is the 1-based position of that record in the source.
C39_FastForwardReturn ==
    pc = "write_chunk" =>
        /\ record.idx >= 1
        /\ record.idx <= Len(source)
        /\ record = Rec(source, record.idx)
        /\ StartsGroup(source, record.idx)
        /\ GroupOf(source, record.idx) - 1 = ChunkStart
        /\ ff.num_queries = ChunkStart + 1
        /\ ff.num_reads = record.idx
        /\ ff.stop_num_queries = ChunkStop
        /\ reader_pos = Offset(source, record.idx + 1)

\* fast_forward has returned from its walk, which started two records or more
\* before the chunk's first one, for the second chunk; the first chunk, which it
\* reached by the bin-aligned branch, was written before
C39_Witness ==
    /\ pc = "write_chunk"
    /\ ff.walk
    /\ chunk_index = 1
    /\ Len(chunks) = 1
    /\ Len(chunks[1]) >= 2
    /\ ChunkStart >= 2
    /\ ff.num_reads >= 4
    /\ ReadsMade >= 3
    /\ record = RecordsOfChunk(chunk_index)[1]

\* the bin-aligned branch: fast_forward has returned for the first chunk after
\* one read
C39_WitnessAligned ==
    /\ pc = "write_chunk"
    /\ ~ff.walk
    /\ chunk_index = 0
    /\ ff.num_reads = 1
    /\ ff.num_queries = 1
    /\ Len(source) >= 2

\* ------------------------------------------------------------------ C40
\* fast_forward is called with chunk_index >= num_chunks and takes its step
CalledPastLastChunk ==
    /\ pc = "fast_forward"
    /\ chunk_index >= num_chunks
    /\ pc' # pc

\* it returns an error, the reader being where it was and no record read
ReturnsErrorUntouched ==
    /\ pc' = "error"
    /\ reader_pos' = reader_pos
    /\ record' = record
    /\ ff' = ff
    /\ out' = out

\* C40 as stated: fast_forward returns an error, not an empty chunk, whenever
\* chunk_index >= num_chunks (the stop bound is computed as
\* get_chunk_query_start(chunk_index + 1, num_chunks), which rejects it), for
\* every index including the empty one, and it does so before any seek or read of
\* the reader.
C40_Original == [][CalledPastLastChunk => ReturnsErrorUntouched]_vars

\* fast_forward has answered chunk_index = num_chunks = usize::MAX on the empty
\* index with an empty chunk
C40_Witness ==
    /\ pc = "chunk_done"
    /\ chunk_index = LargestUsize
    /\ num_chunks = LargestUsize
    /\ loaded_index = <<>>
    /\ out = <<>>

\* what holds: the error comes, before any seek or read, whenever chunk_index + 1
\* fits usize and so do the products of the first get_chunk_query_start
C40_ErrorUnlessOverflow ==
    [][(/\ CalledPastLastChunk
        /\ chunk_index < LargestUsize
        /\ ~ChunkQueryStartOverflows(loaded_index, chunk_index, num_chunks))
           => ReturnsErrorUntouched]_vars

\* and in a build without overflow checks, whenever chunk_index + 1 fits usize
C40_ErrorUnlessLargest ==
    [][(/\ CalledPastLastChunk
        /\ chunk_index < LargestUsize
        /\ pc' # "panic")
           => ReturnsErrorUntouched]_vars

============================================================================
